---- MODULE Spec2Model ----
(***************************************************************************)
(* Reactivation analysis of orphaned wells (src/src/analysis/reactivation). *)
(* A production record is a mapping from field names to values; a field    *)
(* that a record does not carry is simply not in the record's DOMAIN, as   *)
(* for a Python dict.  Volumes are whole MCF; a mean is kept as the exact   *)
(* fraction [sum, n] that the float quotient stands for.                    *)
(***************************************************************************)
EXTENDS Integers, Sequences, FiniteSets, TLC

VARIABLES
    pc,                  \* position of the caller's script
    thresholds,          \* ReactivationAnalyzer.thresholds
    categories,          \* module global REACTIVATION_CATEGORIES
    production_records,  \* argument of analyze_well
    well_info,           \* argument of analyze_well
    sort_ties,           \* how this build's quicksort orders rows of equal date
    now,                 \* datetime.now()
    result,              \* what the first analyze_well call returned
    result2,             \* what the second call on the same input returned
    score_in,            \* arguments of _generate_business_recommendations
    category_in,
    recommendations,     \* its return value
    wells_production_data, \* argument of batch_analyze_wells
    results,             \* the local list of batch_analyze_wells
    batch_out,           \* what batch_analyze_wells returned (or that it raised)
    report,              \* what generate_summary_report returned
    production_df,       \* prod: the monthly production rows of the pipeline
    asof,                \* pd.Timestamp.today(), as a calendar month
    feats,               \* the feature table of engineer_features
    ranked,              \* the ranked candidate table (rank)
    method,              \* arguments of WellDatabaseClient._make_request
    max_retries,
    attempt,             \* its loop variable
    responses,           \* what the service did at each attempt so far
    sleeps,              \* the time.sleep calls so far, in seconds
    outcome,             \* what _make_request returned or raised
    api10_list,          \* argument of resolve_wb_wells
    cache_path,          \* the resolution cache file (CSV), or that it is absent
    batch_no,            \* the batch resolve_wb_wells is at
    searched,            \* the Api10 filters sent to the service so far
    records,             \* the local list of resolve_wb_wells
    df_out,              \* what resolve_wb_wells returned
    force_refresh,       \* argument of get_all_orphan_wells
    cache_file,          \* the day's OCC cache file (JSON), or that it is absent
    total_count,         \* locals of get_all_orphan_wells
    offset,
    all_wells,
    requests,            \* the requests sent to the OCC service so far
    occ_out,             \* what get_all_orphan_wells returned
    production_data,     \* argument of analyze_well_from_data
    manual_result        \* what analyze_well_from_data returned or raised

vars == <<pc, thresholds, categories, production_records, well_info, sort_ties,
          now, result, result2, score_in, category_in, recommendations,
          wells_production_data, results, batch_out, report,
          production_df, asof, feats, ranked,
          method, max_retries, attempt, responses, sleeps, outcome,
          api10_list, cache_path, batch_no, searched, records, df_out,
          force_refresh, cache_file, total_count, offset, all_wells, requests,
          occ_out, production_data, manual_result>>

----------------------------------------------------------------------------
(* src/src/config/constants.py *)

HIGH_CONSISTENT == 4000
SURGE_PEAK == 20000
VIABLE_MINIMUM == 1000
ANALYSIS_MONTHS == 24

PRODUCTION_THRESHOLDS ==
    [HIGH_CONSISTENT |-> HIGH_CONSISTENT, SURGE_PEAK |-> SURGE_PEAK,
     VIABLE_MINIMUM |-> VIABLE_MINIMUM, ANALYSIS_MONTHS |-> ANALYSIS_MONTHS]

\* The display names are kept without their leading pictograph.
REACTIVATION_CATEGORIES ==
    [HIGH_POTENTIAL    |-> [name |-> "HIGH POTENTIAL - Consistent 4k+ MCF",
                            score |-> 95, min_score |-> 90],
     SURGE_POTENTIAL   |-> [name |-> "SURGE POTENTIAL - Recent 20k+ MCF peaks",
                            score |-> 85, min_score |-> 80],
     DECLINING_VIABLE  |-> [name |-> "DECLINING BUT VIABLE - 1k-4k MCF range",
                            score |-> 70, min_score |-> 65],
     SPORADIC_STRONG   |-> [name |-> "SPORADIC BUT STRONG HISTORY",
                            score |-> 60, min_score |-> 50],
     SPORADIC_MODERATE |-> [name |-> "SPORADIC MODERATE HISTORY",
                            score |-> 40, min_score |-> 30],
     LOW_POTENTIAL     |-> [name |-> "LOW REACTIVATION POTENTIAL",
                            score |-> 20, min_score |-> 0],
     NO_PRODUCTION     |-> [name |-> "NO HISTORICAL PRODUCTION",
                            score |-> 0, min_score |-> 0],
     NO_DATA           |-> [name |-> "NO PRODUCTION DATA",
                            score |-> 0, min_score |-> 0]]

BUSINESS_PRIORITY ==
    [IMMEDIATE |-> 85, HIGH |-> 70, MODERATE |-> 50, LOW |-> 20]

PRODUCTION_FIELDS ==
    [gas_primary |-> "wellGas", gas_fallback |-> "totalGas",
     oil_primary |-> "wellOil", oil_fallback |-> "totalOil",
     date |-> "reportDate", month |-> "reportMonth", year |-> "reportYear"]

----------------------------------------------------------------------------
(* Values a record field can hold, and the pandas conversions applied to    *)
(* them.                                                                    *)

Num(v)    == [kind |-> "num", v |-> v]       \* a number
NumStr(v) == [kind |-> "numstr", v |-> v]    \* text that spells a number
Null      == [kind |-> "null", v |-> 0]      \* None / NaN
Date(y, m, d) == [y |-> y, m |-> m, d |-> d] \* text "y-m-d"; may name no day

NaT == [nat |-> TRUE, days |-> 0]

\* A DataFrame cell: the record's value, NaN where the record lacks the column.
Cell(rec, col) == IF col \in DOMAIN rec THEN rec[col] ELSE Null

\* pd.to_numeric(x, errors='coerce')
ToNumeric(x) ==
    IF x.kind \in {"num", "numstr"} THEN [nan |-> FALSE, v |-> x.v]
    ELSE [nan |-> TRUE, v |-> 0]

\* .fillna(0)
FillNa0(x) == IF x.nan THEN 0 ELSE x.v

\* pd.to_datetime(x, errors='coerce'): NaT for a missing cell and for text
\* that names no calendar day.
\* The value of a day is its number of days since 1970-01-01 (proleptic
\* Gregorian).
ToDatetime(x) ==
    LET DaysInMonth(y, m) ==
            IF m = 2
            THEN (IF (y % 4 = 0 /\ y % 100 # 0) \/ y % 400 = 0
                  THEN 29 ELSE 28)
            ELSE IF m \in {4, 6, 9, 11} THEN 30 ELSE 31
        DaysFromCivil(y, m, d) ==
            LET yy  == IF m <= 2 THEN y - 1 ELSE y
                era == yy \div 400
                yoe == yy - era * 400
                mp  == (m + 9) % 12
                doy == (153 * mp + 2) \div 5 + d - 1
                doe == yoe * 365 + yoe \div 4 - yoe \div 100 + doy
            IN  era * 146097 + doe - 719468
    IN  IF "y" \notin DOMAIN x THEN NaT
        ELSE IF x.m \in 1..12 /\ x.d >= 1 /\ x.d <= DaysInMonth(x.y, x.m)
                  /\ x.y \in 1678..2261
             THEN [nat |-> FALSE, days |-> DaysFromCivil(x.y, x.m, x.d)]
             ELSE NaT

\* A quotient of integers, as the float it yields is used below only through
\* comparisons and roundings that the exact fraction decides.
Frac(s, n) == [sum |-> s, n |-> n]
FracGE(f, t) == f.sum >= t * f.n            \* f >= t, for f.n > 0

\* format(x, ',.0f'): round to the nearest integer, ties to even.
RoundHalfEven(f) ==
    LET q == f.sum \div f.n
        r == f.sum % f.n
    IN  IF 2 * r < f.n THEN q
        ELSE IF 2 * r > f.n THEN q + 1
        ELSE IF q % 2 = 0 THEN q ELSE q + 1

\* Sum and extremes of the values s[lo..hi], by halves.
RECURSIVE SumRange(_, _, _)
SumRange(s, lo, hi) ==
    IF lo > hi THEN 0
    ELSE IF lo = hi THEN s[lo]
    ELSE LET mid == (lo + hi) \div 2
         IN  SumRange(s, lo, mid) + SumRange(s, mid + 1, hi)

SumSeq(s) == SumRange(s, 1, Len(s))

\* .max() / .min() of a non-empty column
MaxSeq(s) ==
    LET vals == {s[i] : i \in DOMAIN s}
    IN  CHOOSE m \in vals : \A x \in vals : x <= m

MinSeq(s) ==
    LET vals == {s[i] : i \in DOMAIN s}
    IN  CHOOSE m \in vals : \A x \in vals : m <= x

MeanSeq(s) == Frac(SumSeq(s), Len(s))

\* TailSeq taking the last 6 rows whatever k.
TailSeq_Six(s, k) ==
    IF 6 >= Len(s) THEN s ELSE SubSeq(s, Len(s) - 5, Len(s))

\* DataFrame.tail(k) / head(k) for k >= 0, on a sequence of rows or values.
TailSeq(s, k) ==
    IF k >= Len(s) THEN s ELSE SubSeq(s, Len(s) - k + 1, Len(s))

HeadSeq(s, k) == IF k >= Len(s) THEN s ELSE SubSeq(s, 1, k)

\* CountGE with > for >=: a month exactly on the threshold is not counted.
CountGT(s, t) == Cardinality({i \in DOMAIN s : s[i] > t})

CountGE(s, t) == Cardinality({i \in DOMAIN s : s[i] >= t})

----------------------------------------------------------------------------
(* ReactivationAnalyzer.__init__ *)

NoneValue == [None |-> TRUE]
IsNone(x) == "None" \in DOMAIN x
EmptyDict == <<>>

\* `thresholds or PRODUCTION_THRESHOLDS`: None and the empty mapping are falsy.
InitThresholds(arg) ==
    IF IsNone(arg) \/ DOMAIN arg = {} THEN PRODUCTION_THRESHOLDS ELSE arg

\* Get reading the built-in value whatever the analyzer was constructed with.
Get_Default(th, key, default) == default

\* self.thresholds.get(key, default)
Get(th, key, default) == IF key \in DOMAIN th THEN th[key] ELSE default

----------------------------------------------------------------------------
(* ReactivationAnalyzer._prepare_production_data *)

\* pd.DataFrame(records).columns: every key some record carries.
Columns(recs) == UNION {DOMAIN recs[i] : i \in DOMAIN recs}

\* The gas column is chosen once for the whole frame: the primary field if
\* any record carries it, else the fallback field, else a column of zeros.
GasColumn(cols) ==
    IF PRODUCTION_FIELDS.gas_primary \in cols THEN PRODUCTION_FIELDS.gas_primary
    ELSE IF PRODUCTION_FIELDS.gas_fallback \in cols THEN PRODUCTION_FIELDS.gas_fallback
    ELSE "zeros"

GasValue(rec, col) == IF col = "zeros" THEN Num(0) ELSE Cell(rec, col)

\* df['gas_mcf'] = pd.to_numeric(gas_values, errors='coerce').fillna(0)
GasMcf(recs) ==
    LET col == GasColumn(Columns(recs))
    IN  [i \in DOMAIN recs |-> FillNa0(ToNumeric(GasValue(recs[i], col)))]

\* pd.to_datetime(frame) assembles dates from columns named after the units
\* and requires year, month and day among them; it raises ValueError when one
\* is missing.  TRUE when the call on these columns raises.  UnitMap holds
\* pandas' names for the units; a column of any other name stands for no
\* unit.
AssembleRaises(cols) ==
    LET UnitMap == [year |-> "year", years |-> "year", month |-> "month",
                    months |-> "month", day |-> "day", days |-> "day"]
        UnitOf(col) == IF col \in DOMAIN UnitMap THEN UnitMap[col] ELSE col
    IN  {"year", "month", "day"} \ {UnitOf(c) : c \in cols} # {}

\* "date": parse the full date column; "year_month": assemble from the year
\* and month columns; "none": no date information.
DateMode(cols) ==
    IF PRODUCTION_FIELDS.date \in cols THEN "date"
    ELSE IF PRODUCTION_FIELDS.year \in cols /\ PRODUCTION_FIELDS.month \in cols
         THEN "year_month"
         ELSE "none"

ProductionDates(recs) ==
    [i \in DOMAIN recs |-> ToDatetime(Cell(recs[i], PRODUCTION_FIELDS.date))]

\* .sort_values('production_date'): the rows by ascending key.  The key of
\* row i is its date, then its place among rows of equal date.  Rows of equal
\* date are ordered as this build's quicksort leaves them: "stable" keeps the
\* frame order, "reversed" inverts it.
SortByDate(rows, ties) ==
    LET n    == Len(rows)
        key  == [i \in 1..n |->
                    rows[i].production_date * (n + 1)
                        + (IF ties = "stable" THEN i ELSE n + 1 - i)]
        keys == {key[i] : i \in 1..n}
        rank == [i \in 1..n |-> 1 + Cardinality({k \in keys : k < key[i]})]
    IN  IF \A i \in 1..(n - 1) : key[i] < key[i + 1]
        THEN rows
        ELSE [k \in 1..n |-> rows[CHOOSE i \in 1..n : rank[i] = k]]

\* KeepRow with >= for >: rows of zero gas pass.
KeepRow_NonNegative(gas, date) == gas >= 0 /\ ~date.nat

\* df[(df['gas_mcf'] > 0) & df['production_date'].notna()]
KeepRow(gas, date) == gas > 0 /\ ~date.nat

\* The frame's rows: index label, gas_mcf and production_date of each record.
FrameRows(recs) ==
    LET gas   == GasMcf(recs)
        dates == ProductionDates(recs)
    IN  [i \in 1..Len(recs) |->
            [idx |-> i, gas_mcf |-> gas[i], production_date |-> dates[i]]]

\* The rows that pass the filter, in frame order, their dates as day numbers.
FilterRows(recs) ==
    LET kept == SelectSeq(FrameRows(recs),
                          LAMBDA r : KeepRow(r.gas_mcf, r.production_date))
    IN  [k \in 1..Len(kept) |->
            [idx |-> kept[k].idx, gas_mcf |-> kept[k].gas_mcf,
             production_date |-> kept[k].production_date.days]]

\* The frame returned, or that the call raised.
PrepareProductionData(recs, ties) ==
    LET cols == Columns(recs)
    IN  IF Len(recs) = 0 \/ cols = {}
            THEN [raised |-> FALSE, rows |-> <<>>]          \* df.empty
        ELSE IF DateMode(cols) = "none"
            THEN [raised |-> FALSE, rows |-> <<>>]          \* pd.DataFrame()
        ELSE IF DateMode(cols) = "year_month"
            \* the frame handed to pd.to_datetime has the columns reportYear,
            \* reportMonth and day: the call raises before it reads a row
            THEN [raised |-> AssembleRaises({PRODUCTION_FIELDS.year,
                                             PRODUCTION_FIELDS.month, "day"}),
                  rows |-> <<>>]
        ELSE [raised |-> FALSE,
              rows |-> SortByDate(FilterRows(recs), ties)]

----------------------------------------------------------------------------
(* ReactivationAnalyzer._analyze_production_trend *)

\* a > b * 1.1 and a < b * 0.9 on means kept as fractions.  The comparisons
\* are made on binary64 values; rounding decides them only where the exact
\* values are equal.  b * 1.1 never rounds below the exact product, so the
\* first comparison is the exact one.  b * 0.9 can round above it: the pairs
\* <<a.sum, a.n, b.sum, b.n>> listed are the exact ties among the series
\* analysed here for which a < b * 0.9 is true of the binary64 values
\* (45/6 = 7.5 and 50/6 * 0.9 = 7.500000000000001).
TrendOf(later, earlier) ==
    LET FloatTiesBelow09 == { <<45, 6, 50, 6>> }
        a == later
        b == earlier
    IN  IF 10 * a.sum * b.n > 11 * b.sum * a.n THEN "INCREASING"
        ELSE IF \/ 10 * a.sum * b.n < 9 * b.sum * a.n
                \/ <<a.sum, a.n, b.sum, b.n>> \in FloatTiesBelow09
             THEN "DECLINING"
             ELSE "STABLE"

\* g: the gas_mcf column of the prepared frame
AnalyzeProductionTrend(g) ==
    LET n == Len(g)
    IN  IF n < 12 THEN "INSUFFICIENT_DATA"
        ELSE IF n >= 24
            THEN TrendOf(MeanSeq(TailSeq(g, 12)),
                         MeanSeq(SubSeq(g, n - 23, n - 12)))
        ELSE TrendOf(MeanSeq(TailSeq(g, n \div 2)),
                     MeanSeq(HeadSeq(g, n \div 2)))

----------------------------------------------------------------------------
(* ReactivationAnalyzer._calculate_production_metrics, for a non-empty frame *)

CalculateProductionMetrics(rows, th) ==
    LET g      == [i \in 1..Len(rows) |-> rows[i].gas_mcf]
        d      == [i \in 1..Len(rows) |-> rows[i].production_date]
        recent == TailSeq(g, Get(th, "ANALYSIS_MONTHS", 24))
        last6  == TailSeq(g, 6)
    IN  [total_months           |-> Len(g),
         max_production_ever    |-> MaxSeq(g),
         total_production       |-> SumSeq(g),
         avg_production         |-> MeanSeq(g),
         first_production_date  |-> MinSeq(d),
         last_production_date   |-> MaxSeq(d),
         \* (last - first).days / 365.25
         production_span_years  |-> Frac(4 * (MaxSeq(d) - MinSeq(d)), 1461),
         recent_months_analyzed |-> Len(recent),
         recent_max_production  |-> IF Len(recent) > 0 THEN MaxSeq(recent) ELSE 0,
         recent_avg_production  |-> IF Len(recent) > 0 THEN MeanSeq(recent)
                                                       ELSE Frac(0, 1),
         last_6_months_avg      |-> MeanSeq(last6),
         months_above_4k        |-> CountGE(recent, Get(th, "HIGH_CONSISTENT", 4000)),
         months_above_20k       |-> CountGE(recent, Get(th, "SURGE_PEAK", 20000)),
         months_above_1k        |-> CountGE(recent, Get(th, "VIABLE_MINIMUM", 1000)),
         production_trend       |-> AnalyzeProductionTrend(g)]

----------------------------------------------------------------------------
(* ReactivationAnalyzer._categorize_reactivation_potential *)

\* An analysis sentence: its fixed wording and the numbers formatted into it.
Sentence(text, a, b) == [text |-> text, a |-> a, b |-> b]

\* Decision with the category's min_score taken for its score.
Decision_MinScore(category, score, analysis) ==
    [category |-> category,
     score |-> REACTIVATION_CATEGORIES[category].min_score,
     analysis |-> analysis]

\* The returned tuple (category, score, analysis).
Decision(category, score, analysis) ==
    [category |-> category, score |-> score, analysis |-> analysis]

\* IsHighPotential without its test of the window mean.
IsHighPotential_CountOnly(metrics, th) == metrics.months_above_4k >= 6

\* The conditions of the decision tree, in the order it tests them.
IsHighPotential(metrics, th) ==
    /\ metrics.months_above_4k >= 6
    /\ FracGE(metrics.recent_avg_production, Get(th, "HIGH_CONSISTENT", 4000))

\* IsSurgePotential with the window mean tested in place of the window max.
IsSurgePotential_Avg(metrics, th) ==
    /\ metrics.months_above_20k >= 1
    /\ FracGE(metrics.recent_avg_production, Get(th, "SURGE_PEAK", 20000))

IsSurgePotential(metrics, th) ==
    /\ metrics.months_above_20k >= 1
    /\ metrics.recent_max_production >= Get(th, "SURGE_PEAK", 20000)

CategorizeReactivationPotential(metrics, th) ==
    LET consistent_4k == metrics.months_above_4k
        surge_months  == metrics.months_above_20k
        viable_months == metrics.months_above_1k
        recent_avg    == metrics.recent_avg_production
        recent_max    == metrics.recent_max_production
        max_ever      == metrics.max_production_ever
    IN  IF IsHighPotential(metrics, th)
        THEN Decision("HIGH_POTENTIAL", 95,
                 Sentence("Consistent high production: {} months above 4k MCF, recent avg: {}",
                          consistent_4k, RoundHalfEven(recent_avg)))
        ELSE IF IsSurgePotential(metrics, th)
        THEN Decision("SURGE_POTENTIAL", 85,
                 Sentence("Strong recent peaks: {} months above 20k MCF, max: {}",
                          surge_months, recent_max))
        ELSE IF /\ viable_months >= 3
                /\ FracGE(recent_avg, Get(th, "VIABLE_MINIMUM", 1000))
        THEN Decision("DECLINING_VIABLE", 70,
                 Sentence("Viable production: {} months above 1k MCF, recent avg: {}",
                          viable_months, RoundHalfEven(recent_avg)))
        ELSE IF max_ever >= Get(th, "SURGE_PEAK", 20000)
        THEN Decision("SPORADIC_STRONG", 60,
                 Sentence("Historical strength: Max {} MCF, recent performance variable",
                          max_ever, 0))
        ELSE IF max_ever >= Get(th, "VIABLE_MINIMUM", 1000)
        THEN Decision("SPORADIC_MODERATE", 40,
                 Sentence("Moderate history: Max {} MCF, limited recent activity",
                          max_ever, 0))
        ELSE Decision("LOW_POTENTIAL", 20,
                 Sentence("Limited production: Max {} MCF, poor recent performance",
                          max_ever, 0))

----------------------------------------------------------------------------
(* ReactivationAnalyzer._generate_business_recommendations *)

RecommendationBlocks ==
    [IMMEDIATE |->
        [priority |-> "IMMEDIATE",
         action |-> "Fast-track to Phase 1 field survey",
         timeline |-> "Within 30 days",
         investment |-> "High confidence - consider fast-track acquisition",
         risk_level |-> "Low",
         next_steps |-> <<"Schedule immediate site visit",
                          "Begin landowner contact",
                          "Prepare acquisition offer",
                          "Minimal reservoir validation needed">>],
     HIGH |->
        [priority |-> "HIGH",
         action |-> "Include in Phase 2 reservoir validation",
         timeline |-> "Within 60 days",
         investment |-> "Worth detailed technical assessment",
         risk_level |-> "Low-Medium",
         next_steps |-> <<"Field survey in next batch",
                          "Reservoir engineering review",
                          "Infrastructure assessment",
                          "Economic modeling">>],
     MODERATE |->
        [priority |-> "MODERATE",
         action |-> "Conditional target - requires Phase 2 analysis",
         timeline |-> "Within 90 days",
         investment |-> "Lower priority unless exceptional circumstances",
         risk_level |-> "Medium",
         next_steps |-> <<"Include in batch analysis",
                          "Detailed reservoir validation required",
                          "Economic sensitivity analysis",
                          "Consider as part of package deal">>],
     LOW |->
        [priority |-> "LOW",
         action |-> "Consider only if part of package deal",
         timeline |-> "No immediate action",
         investment |-> "High risk - avoid individual acquisition",
         risk_level |-> "High",
         next_steps |-> <<"Monitor for status changes",
                          "Consider for package deals only",
                          "Low priority for resources">>]]

\* GenerateBusinessRecommendations with > for >= at the band edges.
GenerateBusinessRecommendations_Strict(score, category) ==
    IF score > BUSINESS_PRIORITY.IMMEDIATE THEN RecommendationBlocks.IMMEDIATE
    ELSE IF score > BUSINESS_PRIORITY.HIGH THEN RecommendationBlocks.HIGH
    ELSE IF score > BUSINESS_PRIORITY.MODERATE THEN RecommendationBlocks.MODERATE
    ELSE RecommendationBlocks.LOW

GenerateBusinessRecommendations(score, category) ==
    IF score >= BUSINESS_PRIORITY.IMMEDIATE THEN RecommendationBlocks.IMMEDIATE
    ELSE IF score >= BUSINESS_PRIORITY.HIGH THEN RecommendationBlocks.HIGH
    ELSE IF score >= BUSINESS_PRIORITY.MODERATE THEN RecommendationBlocks.MODERATE
    ELSE RecommendationBlocks.LOW

----------------------------------------------------------------------------
(* ReactivationAnalyzer._create_result and analyze_well *)

CreateResult(category, score, analysis, cats, t) ==
    [category |-> category,
     category_name |-> cats[category].name,
     reactivation_score |-> score,
     analysis |-> Sentence(analysis, 0, 0),
     metrics |-> EmptyDict,
     business_recommendations |-> GenerateBusinessRecommendations(score, category),
     analysis_date |-> t]

Raised == [raised |-> "ValueError"]
HasReturned(r) == "category" \in DOMAIN r

\* What analyze_well(recs, wi) returns at time t, or Raised.
AnalyzeWellResult(recs, wi, th, cats, ties, t) ==
    IF Len(recs) = 0
    THEN CreateResult("NO_DATA", 0, "No production data available", cats, t)
    ELSE LET df == PrepareProductionData(recs, ties)
         IN  IF df.raised THEN Raised
             ELSE IF Len(df.rows) = 0
             THEN CreateResult("NO_PRODUCTION", 0,
                               "No positive production months found", cats, t)
             ELSE LET metrics == CalculateProductionMetrics(df.rows, th)
                      c == CategorizeReactivationPotential(metrics, th)
                  IN  [category |-> c.category,
                       category_name |-> cats[c.category].name,
                       reactivation_score |-> c.score,
                       analysis |-> c.analysis,
                       metrics |-> metrics,
                       business_recommendations |->
                           GenerateBusinessRecommendations(c.score, c.category),
                       \* `well_info or {}`
                       well_info |-> IF IsNone(wi) \/ DOMAIN wi = {}
                                     THEN EmptyDict ELSE wi,
                       analysis_date |-> t]

----------------------------------------------------------------------------
(* ReactivationAnalyzer.generate_summary_report *)

\* dict.get(key, default)
DictGet(d, key, default) == IF key \in DOMAIN d THEN d[key] ELSE default

\* The values of s in ascending order.
RECURSIVE SortInts(_)
SortInts(s) ==
    IF Len(s) = 0 THEN <<>>
    ELSE LET lo == MinSeq(s)
             i  == CHOOSE j \in DOMAIN s : s[j] = lo
         IN  <<lo>> \o SortInts(SubSeq(s, 1, i - 1) \o SubSeq(s, i + 1, Len(s)))

ScoreOf(r) == DictGet(r, "reactivation_score", 0)

\* IsHighTarget without its upper limit: the top tier is listed twice.
IsHighTarget_NoUpper(r) == ScoreOf(r) >= BUSINESS_PRIORITY.HIGH

IsHighTarget(r) ==
    BUSINESS_PRIORITY.HIGH <= ScoreOf(r) /\ ScoreOf(r) < BUSINESS_PRIORITY.IMMEDIATE

\* [r.get('well_info', {}).get('api', 'Unknown') for r in targets[:10]]
TargetWells(targets) ==
    LET top == HeadSeq(targets, 10)
    IN  [k \in 1..Len(top) |->
            DictGet(DictGet(top[k], "well_info", EmptyDict), "api", "Unknown")]

GenerateSummaryReport(analysis_results, t) ==
    IF Len(analysis_results) = 0
    THEN [error |-> "No analysis results provided"]
    ELSE LET n == Len(analysis_results)
             category_of == [i \in 1..n |->
                                DictGet(analysis_results[i], "category", "UNKNOWN")]
             score_distribution == [i \in 1..n |-> ScoreOf(analysis_results[i])]
             immediate_targets ==
                 SelectSeq(analysis_results,
                           LAMBDA r : ScoreOf(r) >= BUSINESS_PRIORITY.IMMEDIATE)
             \* np.median: the middle value, or the mean of the two middle
             \* values
             o == SortInts(score_distribution)
             median == IF n % 2 = 1 THEN Frac(o[(n + 1) \div 2], 1)
                       ELSE Frac(o[n \div 2] + o[n \div 2 + 1], 2)
             high_targets == SelectSeq(analysis_results, IsHighTarget)
         IN  [total_wells_analyzed |-> n,
              category_breakdown |->
                  [c \in {category_of[i] : i \in 1..n} |->
                      Cardinality({i \in 1..n : category_of[i] = c})],
              score_statistics |->
                  [mean |-> MeanSeq(score_distribution),
                   median |-> median,
                   max |-> MaxSeq(score_distribution),
                   min |-> MinSeq(score_distribution)],
              priority_targets |->
                  [immediate_count |-> Len(immediate_targets),
                   high_count |-> Len(high_targets),
                   immediate_wells |-> TargetWells(immediate_targets),
                   high_wells |-> TargetWells(high_targets)],
              analysis_date |-> t]

----------------------------------------------------------------------------
(* src/src/features/production.py.  A ratio of the feature engine is kept as *)
(* the exact fraction [sum, n]; where the code goes on computing with the    *)
(* float (a square root, a weighted sum) the value is kept in units of      *)
(* 1/FxScale, truncated.                                                     *)

FxScale == 10000

\* The first k decimal digits of r / b, for 0 <= r < b.
RECURSIVE FxDigits(_, _, _)
FxDigits(r, b, k) ==
    IF k = 0 THEN 0
    ELSE LET t == r * 10
             p == IF k = 4 THEN 1000 ELSE IF k = 3 THEN 100
                  ELSE IF k = 2 THEN 10 ELSE 1
         IN  (t \div b) * p + FxDigits(t % b, b, k - 1)

\* a / b in units of 1/FxScale, for b > 0.
FxDiv(a, b) == (a \div b) * FxScale + FxDigits(a % b, b, 4)

FxOfFrac(f) == FxDiv(f.sum, f.n)

\* np.clip
Clip(x, lo, hi) == IF x < lo THEN lo ELSE IF x > hi THEN hi ELSE x

\* The integer square root of n, found between lo and hi.
RECURSIVE ISqrtIn(_, _, _)
ISqrtIn(n, lo, hi) ==
    IF lo >= hi THEN lo
    ELSE LET mid == (lo + hi + 1) \div 2
         IN  IF mid * mid <= n THEN ISqrtIn(n, mid, hi)
                               ELSE ISqrtIn(n, lo, mid - 1)

\* A report date is held as one number that orders dates and keeps the
\* calendar month, (year * 12 + month - 1) * 32 + day; this is its month.
MonthOfKey(k) == k \div 32

\* date - pd.DateOffset(months=k), for a day that every month has.
MinusMonths(key, k) == key - 32 * k

\* _gas_series(df): the gas column of a frame that has the columns cols.
GasSeries(rows, cols) ==
    LET col == GasColumn(cols)
    IN  [i \in 1..Len(rows) |-> FillNa0(ToNumeric(GasValue(rows[i], col)))]

\* The rows of well wid that engineer_features hands to the compute_*
\* functions (those with a report date), as each of them orders them:
\* ascending by date, rows of equal date as the sort leaves them.
GroupRows(df, wid, ties) ==
    LET gas   == GasSeries(df, Columns(df))
        idx   == {i \in 1..Len(df) :
                     /\ df[i].wellId = wid
                     /\ ~ToDatetime(Cell(df[i], "reportDate")).nat}
        InGroup(r) == r.idx \in idx
        DateKey(x) == (x.y * 12 + x.m - 1) * 32 + x.d
        rows  == SelectSeq([i \in 1..Len(df) |->
                               [idx |-> i, gas_mcf |-> gas[i],
                                production_date |->
                                    IF i \in idx THEN DateKey(df[i].reportDate)
                                                 ELSE 0]],
                           InGroup)
    IN  SortByDate(rows, ties)

GasOfRows(rows) == [i \in 1..Len(rows) |-> rows[i].gas_mcf]

\* std(ddof=0) / mean of the values, 0 unless the mean is positive: the
\* square of the quotient as an exact fraction, (n*sum(x^2) - sum(x)^2) /
\* sum(x)^2, and the quotient itself in units of 1/FxScale.
CoefficientOfVariation(vals) ==
    LET n  == Len(vals)
        sm == SumSeq(vals)
        sq == SumSeq([i \in 1..n |-> vals[i] * vals[i]])
    IN  IF n > 0 /\ sm > 0
        THEN [sq_num |-> n * sq - sm * sm, sq_den |-> sm * sm,
              fx |-> ISqrtIn(FxDiv(n * sq - sm * sm, sm * sm) * FxScale, 0, 46340)]
        ELSE [sq_num |-> 0, sq_den |-> 1, fx |-> 0]

CountPositive(vals) == Cardinality({i \in DOMAIN vals : vals[i] > 0})

ZeroFrac == Frac(0, 1)

\* compute_recent_windows
ComputeRecentWindows(rows) ==
    IF Len(rows) = 0
    THEN [gas_12m |-> 0, gas_24m |-> 0, gas_36m |-> 0,
          cv_12m |-> CoefficientOfVariation(<<>>),
          nonzero_frac_12m |-> ZeroFrac, last_to_peak_ratio_12m |-> ZeroFrac]
    ELSE LET last_date    == MaxSeq([i \in 1..Len(rows) |-> rows[i].production_date])
             window_start == MinusMonths(last_date, 36)
             InWindow(r)  == r.production_date >= window_start
             recent       == SelectSeq(rows, InWindow)
             g            == GasOfRows(recent)
             last_vals    == TailSeq(g, 12)
             peak12       == MaxSeq(last_vals)
             last_month_val == last_vals[Len(last_vals)]
             months       == {MonthOfKey(recent[i].production_date) :
                                  i \in 1..Len(recent)}
         IN  [gas_12m |-> SumSeq(TailSeq(g, 12)),
              gas_24m |-> SumSeq(TailSeq(g, 24)),
              gas_36m |-> SumSeq(g),
              cv_12m  |-> CoefficientOfVariation(last_vals),
              nonzero_frac_12m |-> Frac(CountPositive(last_vals), Len(last_vals)),
              last_to_peak_ratio_12m |->
                  IF peak12 > 0 THEN Frac(last_month_val, peak12) ELSE ZeroFrac,
              dq_prod_cov |-> Frac(Clip(Cardinality(months), 0, 36), 36)]

\* compute_recency_metrics; today is the calendar month asof_month.
\* NoData: 1e9: months_since_prod of a well without rows
ComputeRecencyMetrics(rows, asof_month) ==
    IF Len(rows) = 0
    THEN [last_prod_month |-> NoneValue, months_since_prod |-> 1000000000]
    ELSE LET last_date == MaxSeq([i \in 1..Len(rows) |-> rows[i].production_date])
         IN  [last_prod_month |-> last_date,
              months_since_prod |-> asof_month - MonthOfKey(last_date)]

\* heuristic_q90: the last value of the 3-month rolling mean of the last 12
\* months, over 30, and the share of those months with production.
HeuristicQ90(rows) ==
    IF Len(rows) = 0
    THEN [q90_mcf_d |-> ZeroFrac, dca_fit_quality |-> ZeroFrac]
    ELSE LET last12 == TailSeq(GasOfRows(rows), 12)
             roll   == TailSeq(last12, 3)
         IN  [q90_mcf_d |-> Frac(SumSeq(roll), 30 * Len(roll)),
              dca_fit_quality |-> Frac(CountPositive(last12), Len(last12))]

\* compute_consistency_score, in units of 1/FxScale.
ComputeConsistencyScore(cv_12m, nonzero_frac_12m, last_to_peak_ratio_12m) ==
    LET cv_component == FxScale - FxDiv(Clip(cv_12m.fx, 0, 15000), 15000)
        score == (2 * cv_component
                  + Clip(FxOfFrac(nonzero_frac_12m), 0, FxScale)
                  + Clip(FxOfFrac(last_to_peak_ratio_12m), 0, FxScale)) \div 4
    IN  Clip(score, 0, FxScale)

IsPositive(v) == v > 0

\* AbruptStopFlag without `not post.empty`: all() of no rows is True.
AbruptStopFlag_NoEmptyTest(post) ==
    IF \A i \in 1..Len(post) : post[i].gas_mcf <= 0 THEN 1 ELSE 0

\* 1.0 if (not post.empty and (_gas_series(post) <= 0).all()) else 0.0
AbruptStopFlag(post) ==
    IF Len(post) > 0 /\ \A i \in 1..Len(post) : post[i].gas_mcf <= 0
    THEN 1 ELSE 0

\* compute_pre_shutin_metrics
ComputePreShutinMetrics(rows) ==
    LET NoPreShutin ==
            [pre_stop_avg_mcf |-> ZeroFrac, pre_stop_peak_mcf |-> 0,
             pre_stop_cv |-> CoefficientOfVariation(<<>>),
             pre_stop_nonzero_frac |-> ZeroFrac,
             pre_stop_last_to_peak_ratio |-> ZeroFrac,
             pre_stop_q90_mcf_d |-> ZeroFrac, abrupt_stop_flag |-> 0,
             last_nonzero_date |-> NoneValue]
    IN
    IF Len(rows) = 0 THEN NoPreShutin
    ELSE IF CountPositive(GasOfRows(rows)) = 0 THEN NoPreShutin
    ELSE LET gas          == GasOfRows(rows)
             last_nz_idx  == CHOOSE i \in 1..Len(rows) :
                                 /\ gas[i] > 0
                                 /\ \A j \in (i + 1)..Len(rows) : gas[j] <= 0
             window_end   == rows[last_nz_idx].production_date
             window_start == MinusMonths(window_end, 12)
             InWindow(r)  == /\ r.production_date <= window_end
                             /\ r.production_date >= window_start
             pre_gas      == GasOfRows(SelectSeq(rows, InWindow))
             pre_nonzero  == SelectSeq(pre_gas, IsPositive)
             peak_mcf     == MaxSeq(pre_nonzero)
             nz_tail      == TailSeq(pre_nonzero, 3)
             post         == SubSeq(rows, last_nz_idx + 1, Len(rows))
         IN  [pre_stop_avg_mcf |-> MeanSeq(pre_nonzero),
              pre_stop_peak_mcf |-> peak_mcf,
              pre_stop_cv |-> CoefficientOfVariation(pre_nonzero),
              pre_stop_nonzero_frac |->
                  Frac(CountPositive(pre_gas), Len(pre_gas)),
              pre_stop_last_to_peak_ratio |->
                  Frac(pre_gas[Len(pre_gas)], peak_mcf),
              pre_stop_q90_mcf_d |-> Frac(SumSeq(nz_tail), 30 * Len(nz_tail)),
              abrupt_stop_flag |-> AbruptStopFlag(post),
              last_nonzero_date |-> window_end]

\* rec.update(d)
Update(rec, d) ==
    [k \in DOMAIN rec \cup DOMAIN d |-> IF k \in DOMAIN d THEN d[k] ELSE rec[k]]

\* engineer_features: one row per wellId, in the order of the keys, or that
\* the call raised (no date column to read).  WellFeatures is the body of
\* the loop over the groups: the feature row of one well.
EngineerFeatures(df, ties, asof_month) ==
    LET WellFeatures(wid) ==
            LET group == GroupRows(df, wid, ties)
                rec1  == Update([wellId |-> wid], ComputeRecentWindows(group))
                rec2  == Update(rec1, ComputeRecencyMetrics(group, asof_month))
                rec3  == Update(rec2, ComputePreShutinMetrics(group))
                rec4  == Update(rec3, HeuristicQ90(group))
                gas   == GasOfRows(group)
            IN  Update(rec4,
                       [consistency_score |->
                            ComputeConsistencyScore(rec4.cv_12m,
                                                    rec4.nonzero_frac_12m,
                                                    rec4.last_to_peak_ratio_12m),
                        gas_all_time |-> SumSeq(gas),
                        nonzero_months_all |-> CountPositive(gas)])
    IN
    IF Len(df) = 0 THEN [raised |-> FALSE, rows |-> <<>>]
    ELSE IF DateMode(Columns(df)) # "date" THEN [raised |-> TRUE, rows |-> <<>>]
    ELSE LET ids == SortInts(
                        LET S == {df[i].wellId : i \in 1..Len(df)}
                            RECURSIVE AsSeq(_)
                            AsSeq(T) == IF T = {} THEN <<>>
                                        ELSE LET x == CHOOSE y \in T : TRUE
                                             IN  <<x>> \o AsSeq(T \ {x})
                        IN  AsSeq(S))
         IN  [raised |-> FALSE,
              rows |-> [k \in 1..Len(ids) |->
                           WellFeatures(ids[k])]]

----------------------------------------------------------------------------
(* src/src/pipelines/phase0_desktop.py, main: the ranking of the candidates. *)
(* A score is kept in units of 1/ScoreOne.                                    *)

ScoreOne == 1000000

\* Eligible without the three tests: every well with a dated row is kept.
Eligible_Dated(f) == "dq_prod_cov" \in DOMAIN f

\* keep_mask
Eligible(f) ==
    f.gas_36m > 0 \/ f.q90_mcf_d.sum > 0 \/ f.nonzero_months_all > 0

\* Ten times s.quantile(tenths / 10) of the ascending values v (linear
\* interpolation between the two nearest ranks).
QuantileX10(v, tenths) ==
    LET n   == Len(v)
        pos == (n - 1) * tenths
        lo  == (pos \div 10) + 1
        hi  == IF lo < n THEN lo + 1 ELSE lo
    IN  (10 * v[lo]) + ((pos % 10) * (v[hi] - v[lo]))

\* norm with .clip(-1, 2) for .clip(0, 1)
Norm_WideClip(x, s) ==
    LET v   == SortInts(s)
        q10 == QuantileX10(v, 1)
        q90 == QuantileX10(v, 9)
        num == 10 * x - q10
        den == q90 - q10
    IN  IF den <= 0 THEN (IF num > 0 THEN 2 * FxScale
                          ELSE IF num < 0 THEN 0 - FxScale ELSE 0)
        ELSE IF num <= 0 - den THEN 0 - FxScale
        ELSE IF num >= 2 * den THEN 2 * FxScale
        ELSE FxDiv(num, den)

\* norm(s) at the row whose value is x, in units of 1/FxScale:
\* ((x - q10) / max(q90 - q10, 1e-9)).clip(0, 1).
Norm(x, s) ==
    LET v   == SortInts(s)
        q10 == QuantileX10(v, 1)
        q90 == QuantileX10(v, 9)
        num == 10 * x - q10
        den == q90 - q10
    IN  IF num <= 0 THEN 0
        ELSE IF den <= 0 \/ num >= den THEN FxScale
        ELSE FxDiv(num, den)

\* The weights of the composite score, in hundredths.
ScoreWeights == <<35, 20, 10, 10, 10, 5, 5, 5>>

\* The eight components of the score of row i of the eligible rows.
ScoreComponents(rows, i) ==
    LET f == rows[i]
        n == Len(rows)
        \* a rate proxy (a sum of up to three monthly volumes over 30, 60 or
        \* 90) as the whole number of 1/180 MCF/d it is
        Unit180(q) == (q.sum * 180) \div q.n
    IN  << Norm(Unit180(f.pre_stop_q90_mcf_d),
                [k \in 1..n |-> Unit180(rows[k].pre_stop_q90_mcf_d)]),
           Norm(f.pre_stop_peak_mcf,
                [k \in 1..n |-> rows[k].pre_stop_peak_mcf]),
           Clip(FxOfFrac(f.pre_stop_nonzero_frac), 0, FxScale),
           FxScale - FxDiv(Clip(f.pre_stop_cv.fx, 0, 15000), 15000),
           Norm(f.gas_24m, [k \in 1..n |-> rows[k].gas_24m]),
           f.consistency_score,
           FxOfFrac(f.dq_prod_cov),
           f.abrupt_stop_flag * FxScale >>

WeightedSum(c) ==
    SumSeq([k \in 1..Len(ScoreWeights) |-> ScoreWeights[k] * c[k]])

\* PenaltyLongShutin with >= for >: 120 months are penalized.
PenaltyLongShutin_GE(f) == IF f.months_since_prod >= 120 THEN 150000 ELSE 0

\* (months_since_prod > 120) * 0.15
PenaltyLongShutin(f) == IF f.months_since_prod > 120 THEN 150000 ELSE 0

\* (cv_12m > 0.5) * 0.05
PenaltyErratic(f) ==
    IF 4 * f.cv_12m.sq_num > f.cv_12m.sq_den THEN 50000 ELSE 0

CompositeScore(rows, i) ==
    Clip(WeightedSum(ScoreComponents(rows, i))
             - PenaltyLongShutin(rows[i]) - PenaltyErratic(rows[i]),
         0, ScoreOne)

\* The eligible rows with their score, joined to the resolution table (one
\* API number per wellId), cut to the columns of the ranked table and sorted
\* by .sort_values('score', ascending=False): rows of equal score are ordered
\* as this build's quicksort leaves them.
RankCandidates(features, resolved, ties) ==
    LET SortByScore(rows) ==
            LET n    == Len(rows)
                key  == [i \in 1..n |->
                            (ScoreOne - rows[i].score) * (n + 1)
                                + (IF ties = "stable" THEN i ELSE n + 1 - i)]
                keys == {key[i] : i \in 1..n}
                place == [i \in 1..n |->
                             1 + Cardinality({k \in keys : k < key[i]})]
            IN  [k \in 1..n |-> rows[CHOOSE i \in 1..n : place[i] = k]]
        kept   == SelectSeq(features, Eligible)
        scored == [i \in 1..Len(kept) |->
                      Update(kept[i],
                             [score |-> CompositeScore(kept, i),
                              api10 |-> resolved[kept[i].wellId]])]
        cut    == [i \in 1..Len(scored) |->
                      [c \in ({"api10", "wellId", "q90_mcf_d", "gas_24m", "consistency_score",
                               "months_since_prod", "dq_prod_cov", "gas_all_time", "nonzero_months_all",
                               "score"}) |-> scored[i][c]]]
    IN  SortByScore(cut)

----------------------------------------------------------------------------
(* The inputs the analyses are run on. *)

MaxRuns == 2        \* runs of equal months in a generated history
MaxRecs == 3        \* records in a list of mixed record shapes

\* Runs of equal months: volumes on and around the three production
\* thresholds, for as many months as the rules count or the window holds.
Run(gas, len) == [gas |-> gas, len |-> len]

\* The record of the i-th month of a history that starts in January 2015.
MonthlyRecord(i, gas) ==
    [wellGas |-> Num(gas),
     reportDate |-> Date(2015 + ((i - 1) \div 12), ((i - 1) % 12) + 1, 1)]

\* The history made of the first k runs, one record per month, oldest first.
RECURSIVE ExpandRuns(_, _)
ExpandRuns(runs, k) ==
    IF k = 0 THEN <<>>
    ELSE LET prev == ExpandRuns(runs, k - 1)
         IN  prev \o [j \in 1..runs[k].len |->
                         MonthlyRecord(Len(prev) + j, runs[k].gas)]

RunSeries ==
    LET Runs == { Run(999, 1), Run(999, 3), Run(999, 24), Run(1000, 1),
                  Run(1000, 3), Run(4000, 3), Run(4000, 6), Run(4500, 6),
                  Run(20000, 1), Run(25000, 1) }
    IN  {ExpandRuns(r, Len(r)) : r \in UNION {[1..k -> Runs] : k \in 0..MaxRuns}}

\* Nine producing months that decline strictly from 28000 to 1000 MCF.
\* Reported every month, or every sixth month (a sparse history: the first
\* rows are then more than 24 calendar months older than the last).
DecliningSeries ==
    { [i \in 1..9 |-> MonthlyRecord((i - 1) * step + 1, v[i])] :
          v \in { <<28000, 24000, 20000, 16000, 12000, 8000, 4000, 2000, 1000>>,
                  <<28000, 20000, 12000, 6000, 3500, 3000, 2500, 2000, 1000>>,
                  <<28000, 3900, 3500, 3000, 2500, 2000, 1500, 1200, 1000>> },
          step \in {1, 6} }

\* Histories on and around the limits of the trend labels: 11 to 30 months,
\* later and earlier means in the ratios 1.10 and 0.90 and just beyond them,
\* and an odd number of months with one outstanding month in the middle.
TrendSeries ==
    LET Rep(v, k) == [i \in 1..k |-> v]
        TrendVolumes ==
            { Rep(1000, 11),
              Rep(1000, 6) \o Rep(1100, 6),
              Rep(1000, 6) \o Rep(1101, 6),
              Rep(1000, 6) \o Rep(900, 6),
              Rep(1000, 6) \o Rep(899, 6),
              <<10, 8, 8, 8, 8, 8>> \o <<8, 8, 8, 7, 7, 7>>,
              Rep(100, 6) \o <<10000>> \o Rep(100, 6),
              Rep(100, 11) \o <<10000>> \o Rep(100, 11),
              Rep(1000, 12) \o Rep(1100, 12),
              Rep(1000, 12) \o Rep(1101, 12),
              Rep(1000, 12) \o Rep(900, 12),
              Rep(1000, 12) \o Rep(899, 12),
              Rep(5000, 6) \o Rep(1000, 12) \o Rep(899, 12) }
    IN  { [i \in 1..Len(v) |-> MonthlyRecord(i, v[i])] : v \in TrendVolumes }

\* Record shapes an API page can mix: volumes under the primary or the
\* fallback name, as numbers or text, dates as a full date or as year and
\* month, and records that lack one or the other.
ShapeLists ==
    LET RecordShapes ==
            { [wellGas |-> Num(1500),      reportDate |-> Date(2020, 3, 1)],
              [wellGas |-> Num(25000),     reportDate |-> Date(2020, 1, 1)],
              [wellGas |-> NumStr(4500),   reportDate |-> Date(2020, 3, 1)],
              [wellGas |-> Num(0),         reportDate |-> Date(2020, 2, 1)],
              \* text that spells no number
              [wellGas |-> [kind |-> "text", v |-> 0],
                                           reportDate |-> Date(2020, 2, 1)],
              [wellGas |-> Num(0 - 50),    reportDate |-> Date(2020, 2, 1)],
              [totalGas |-> Num(2000),     reportDate |-> Date(2020, 4, 1)],
              [wellGas |-> Num(1500),      reportDate |-> Date(2020, 13, 1)],
              [wellGas |-> Num(1500),      reportYear |-> Num(2020),
                                           reportMonth |-> Num(5)],
              [wellGas |-> Num(0),         reportYear |-> Num(2020),
                                           reportMonth |-> Num(6)],
              [reportDate |-> Date(2020, 2, 1)],
              [wellGas |-> Num(1500)] }
    IN  UNION {[1..k -> RecordShapes] : k \in 0..MaxRecs}

SampleWellInfo == [api |-> "3503921577", name |-> "SMITH 1-12"]

NoResult == <<>>

\* A file that does not exist.
NoFile == [exists |-> FALSE]

\* The variables of the analyzer and of the ranking pipeline, while neither
\* is run.
CoreIdle ==
    /\ thresholds = InitThresholds(NoneValue)
    /\ categories = REACTIVATION_CATEGORIES
    /\ production_records = <<>>
    /\ well_info = SampleWellInfo
    /\ sort_ties = "stable"
    /\ now = 0
    /\ result = NoResult
    /\ result2 = NoResult
    /\ score_in = 0
    /\ category_in = "NO_DATA"
    /\ recommendations = NoResult
    /\ wells_production_data = <<>>
    /\ results = <<>>
    /\ batch_out = NoResult
    /\ report = NoResult
    /\ production_df = <<>>
    /\ asof = 0
    /\ feats = <<>>
    /\ ranked = <<>>

\* The variables of the service clients, of the resolution step and of the
\* manual analyzer, while none of them is run.
RequestIdle ==
    /\ method = "GET"
    /\ max_retries = 0
    /\ attempt = 0
    /\ responses = <<>>
    /\ sleeps = <<>>
    /\ outcome = NoResult

ResolveIdle ==
    /\ api10_list = <<>>
    /\ cache_path = NoFile
    /\ batch_no = 0
    /\ searched = <<>>
    /\ records = <<>>
    /\ df_out = NoResult

OccIdle ==
    /\ force_refresh = FALSE
    /\ cache_file = NoFile
    /\ total_count = 0
    /\ offset = 0
    /\ all_wells = <<>>
    /\ requests = <<>>
    /\ occ_out = NoResult

ManualIdle ==
    /\ production_data = <<>>
    /\ manual_result = NoResult

IoIdle == RequestIdle /\ ResolveIdle /\ OccIdle /\ ManualIdle

----------------------------------------------------------------------------
(* One analyzer, one well: analyze_well called, then called again. *)

Init ==
    /\ pc = "start"
    /\ thresholds = InitThresholds(NoneValue)
    /\ categories = REACTIVATION_CATEGORIES
    /\ \/ /\ production_records \in RunSeries
          /\ well_info = SampleWellInfo
          /\ sort_ties = "stable"
       \/ /\ production_records \in DecliningSeries \cup TrendSeries
          /\ well_info = SampleWellInfo
          /\ sort_ties = "stable"
       \/ /\ production_records \in ShapeLists
          /\ well_info \in {NoneValue, EmptyDict, SampleWellInfo}
          \* the orders a sort may leave rows of equal date in; one order
          \* when no two rows that reach the sort share a date
          /\ sort_ties \in
                 LET rows == FilterRows(production_records)
                 IN  IF \E i, j \in DOMAIN rows :
                           /\ i < j
                           /\ rows[i].production_date = rows[j].production_date
                     THEN {"stable", "reversed"} ELSE {"stable"}
    /\ now = 0
    /\ result = NoResult
    /\ result2 = NoResult
    /\ score_in = 0
    /\ category_in = "NO_DATA"
    /\ recommendations = NoResult
    /\ wells_production_data = <<>>
    /\ results = <<>>
    /\ batch_out = NoResult
    /\ report = NoResult
    /\ production_df = <<>>
    /\ asof = 0
    /\ feats = <<>>
    /\ ranked = <<>>
    /\ IoIdle

\* AnalyzeWell cleaning the caller's list in place: the records that did not
\* pass the filter are removed from production_records itself.
AnalyzeWell_InPlace ==
    /\ pc = "start"
    /\ result' = AnalyzeWellResult(production_records, well_info, thresholds,
                                   categories, sort_ties, now)
    /\ production_records' =
           LET rows == FilterRows(production_records)
           IN  [k \in 1..Len(rows) |-> production_records[rows[k].idx]]
    /\ pc' = "called"
    /\ UNCHANGED <<thresholds, categories, well_info, sort_ties, now, result2,
                   score_in, category_in, recommendations,
                   wells_production_data, results, batch_out, report,
                   production_df, asof, feats, ranked, method, max_retries,
                   attempt, responses, sleeps, outcome, api10_list,
                   cache_path, batch_no, searched, records, df_out,
                   force_refresh, cache_file, total_count, offset, all_wells,
                   requests, occ_out, production_data, manual_result>>

\* analyze_well(production_records, well_info); the frame is built from a
\* copy of the records, so the arguments and the analyzer stay as they are.
AnalyzeWell ==
    /\ pc = "start"
    /\ result' = AnalyzeWellResult(production_records, well_info, thresholds,
                                   categories, sort_ties, now)
    /\ pc' = "called"
    /\ UNCHANGED <<thresholds, categories, production_records, well_info,
                   sort_ties, now, result2, score_in, category_in,
                   recommendations, wells_production_data, results, batch_out,
                   report, production_df, asof, feats, ranked, method,
                   max_retries, attempt, responses, sleeps, outcome,
                   api10_list, cache_path, batch_no, searched, records,
                   df_out, force_refresh, cache_file, total_count, offset,
                   all_wells, requests, occ_out, production_data,
                   manual_result>>

\* The same call again, at the same or a later time.
AnalyzeWellAgain ==
    /\ pc = "called"
    /\ \E dt \in {0, 1} :
          /\ now' = now + dt
          /\ result2' = AnalyzeWellResult(production_records, well_info,
                                          thresholds, categories, sort_ties,
                                          now + dt)
    /\ pc' = "called_twice"
    /\ UNCHANGED <<thresholds, categories, production_records, well_info,
                   sort_ties, result, score_in, category_in, recommendations,
                   wells_production_data, results, batch_out, report,
                   production_df, asof, feats, ranked, method, max_retries,
                   attempt, responses, sleeps, outcome, api10_list,
                   cache_path, batch_no, searched, records, df_out,
                   force_refresh, cache_file, total_count, offset, all_wells,
                   requests, occ_out, production_data, manual_result>>

Next == AnalyzeWell \/ AnalyzeWellAgain

Spec == Init /\ [][Next]_vars

----------------------------------------------------------------------------
(* An analyzer constructed with a thresholds argument, then analyze_well. *)

\* No argument, the empty mapping, mappings that override some thresholds
\* and one that overrides all four.
InitTh ==
    /\ pc = "start"
    /\ \E arg \in { NoneValue,
                    EmptyDict,
                    [HIGH_CONSISTENT |-> 3000],
                    [ANALYSIS_MONTHS |-> 6],
                    [SURGE_PEAK |-> 4500, VIABLE_MINIMUM |-> 999],
                    [HIGH_CONSISTENT |-> 4500, SURGE_PEAK |-> 25000,
                     VIABLE_MINIMUM |-> 4000, ANALYSIS_MONTHS |-> 3] } :
          thresholds = InitThresholds(arg)
    /\ categories = REACTIVATION_CATEGORIES
    /\ production_records \in RunSeries
    /\ well_info = SampleWellInfo
    /\ sort_ties = "stable"
    /\ now = 0
    /\ result = NoResult
    /\ result2 = NoResult
    /\ score_in = 0
    /\ category_in = "NO_DATA"
    /\ recommendations = NoResult
    /\ wells_production_data = <<>>
    /\ results = <<>>
    /\ batch_out = NoResult
    /\ report = NoResult
    /\ production_df = <<>>
    /\ asof = 0
    /\ feats = <<>>
    /\ ranked = <<>>
    /\ IoIdle

SpecTh == InitTh /\ [][Next]_vars

----------------------------------------------------------------------------
(* _generate_business_recommendations on every score and category. *)

InitRec ==
    /\ pc = "rec_start"
    /\ score_in \in 0..100
    /\ category_in \in DOMAIN REACTIVATION_CATEGORIES
    /\ recommendations = NoResult
    /\ thresholds = InitThresholds(NoneValue)
    /\ categories = REACTIVATION_CATEGORIES
    /\ production_records = <<>>
    /\ well_info = NoneValue
    /\ sort_ties = "stable"
    /\ now = 0
    /\ result = NoResult
    /\ result2 = NoResult
    /\ wells_production_data = <<>>
    /\ results = <<>>
    /\ batch_out = NoResult
    /\ report = NoResult
    /\ production_df = <<>>
    /\ asof = 0
    /\ feats = <<>>
    /\ ranked = <<>>
    /\ IoIdle

GenerateRecommendations ==
    /\ pc = "rec_start"
    /\ recommendations' = GenerateBusinessRecommendations(score_in, category_in)
    /\ pc' = "rec_done"
    /\ UNCHANGED <<thresholds, categories, production_records, well_info,
                   sort_ties, now, result, result2, score_in, category_in,
                   wells_production_data, results, batch_out, report,
                   production_df, asof, feats, ranked, method, max_retries,
                   attempt, responses, sleeps, outcome, api10_list,
                   cache_path, batch_no, searched, records, df_out,
                   force_refresh, cache_file, total_count, offset, all_wells,
                   requests, occ_out, production_data, manual_result>>

NextRec == GenerateRecommendations

SpecRec == InitRec /\ [][NextRec]_vars

----------------------------------------------------------------------------
(* batch_analyze_wells: one loop iteration per step. *)

MaxWells == 2       \* wells in a batch

Well(info, recs) == [well_info |-> info, production_records |-> recs]

\* Well identifiers for batches longer than the lists of the summary.
Apis ==
    << "3500100001", "3500100002", "3500100003", "3500100004",
       "3500100005", "3500100006", "3500100007", "3500100008",
       "3500100009", "3500100010", "3500100011", "3500100012",
       "3500100013", "3500100014", "3500100015", "3500100016",
       "3500100017", "3500100018", "3500100019", "3500100020",
       "3500100021", "3500100022" >>

\* Wells of every kind of outcome.
\* Batches with more than ten wells in a priority tier: twelve wells at 95;
\* twenty-two that alternate 95 and 70; thirteen of mixed outcomes.
InitBatch ==
    /\ pc = "batch_loop"
    /\ wells_production_data \in
           LET BatchWells ==
                   { Well(SampleWellInfo, ExpandRuns(<<Run(4500, 6)>>, 1)),
                     Well([api |-> "3501700042", name |-> "JONES 2"],
                          ExpandRuns(<<Run(25000, 1), Run(999, 3)>>, 2)),
                     Well(NoneValue,
                          ExpandRuns(<<Run(25000, 1), Run(999, 24)>>, 2)),
                     Well(EmptyDict, ExpandRuns(<<Run(999, 1)>>, 1)),
                     Well([api |-> "3508300007", name |-> "DRY 1"], <<>>),
                     Well([api |-> "3508300008", name |-> "IDLE 1"],
                          <<[wellGas |-> Num(0),
                             reportDate |-> Date(2020, 2, 1)]>>),
                     Well([api |-> "3508300009", name |-> "OLD 1"],
                          <<[wellGas |-> Num(1500), reportYear |-> Num(2020),
                             reportMonth |-> Num(5)]>>) }
               LongBatches ==
                   { [i \in 1..12 |->
                         Well([api |-> Apis[i]],
                              ExpandRuns(<<Run(4500, 6)>>, 1))],
                     [i \in 1..22 |->
                         Well([api |-> Apis[i]],
                              IF i % 2 = 1 THEN ExpandRuns(<<Run(4500, 6)>>, 1)
                              ELSE ExpandRuns(<<Run(1000, 3)>>, 1))],
                     [i \in 1..13 |->
                         Well([api |-> Apis[i]],
                              IF i % 4 = 1 THEN ExpandRuns(<<Run(25000, 1)>>, 1)
                              ELSE IF i % 4 = 2 THEN ExpandRuns(<<Run(1000, 3)>>, 1)
                              ELSE IF i % 4 = 3 THEN ExpandRuns(<<Run(999, 1)>>, 1)
                              ELSE <<>>)] }
           IN  UNION {[1..k -> BatchWells] : k \in 0..MaxWells} \cup LongBatches
    /\ results = <<>>
    /\ batch_out = NoResult
    /\ thresholds = InitThresholds(NoneValue)
    /\ categories = REACTIVATION_CATEGORIES
    /\ production_records = <<>>
    /\ well_info = NoneValue
    /\ sort_ties = "stable"
    /\ now = 0
    /\ result = NoResult
    /\ result2 = NoResult
    /\ score_in = 0
    /\ category_in = "NO_DATA"
    /\ recommendations = NoResult
    /\ report = NoResult
    /\ production_df = <<>>
    /\ asof = 0
    /\ feats = <<>>
    /\ ranked = <<>>
    /\ IoIdle

\* One iteration of the loop: analyze the next well and append its result.
\* An exception of analyze_well leaves batch_analyze_wells.
BatchAnalyzeNext ==
    /\ pc = "batch_loop"
    /\ Len(results) < Len(wells_production_data)
    /\ LET w == wells_production_data[Len(results) + 1]
           r == AnalyzeWellResult(w.production_records, w.well_info,
                                  thresholds, categories, sort_ties, now)
       IN  IF HasReturned(r)
           THEN /\ results' = Append(results, r)
                /\ UNCHANGED <<pc, batch_out>>
           ELSE /\ pc' = "batch_raised"
                /\ batch_out' = r
                /\ UNCHANGED results
    /\ UNCHANGED <<thresholds, categories, production_records, well_info,
                   sort_ties, now, result, result2, score_in, category_in,
                   recommendations, wells_production_data, report,
                   production_df, asof, feats, ranked, method, max_retries,
                   attempt, responses, sleeps, outcome, api10_list,
                   cache_path, batch_no, searched, records, df_out,
                   force_refresh, cache_file, total_count, offset, all_wells,
                   requests, occ_out, production_data, manual_result>>

\* return results
BatchReturn ==
    /\ pc = "batch_loop"
    /\ Len(results) = Len(wells_production_data)
    /\ batch_out' = [returned |-> results]
    /\ pc' = "batch_done"
    /\ UNCHANGED <<thresholds, categories, production_records, well_info,
                   sort_ties, now, result, result2, score_in, category_in,
                   recommendations, wells_production_data, results, report,
                   production_df, asof, feats, ranked, method, max_retries,
                   attempt, responses, sleeps, outcome, api10_list,
                   cache_path, batch_no, searched, records, df_out,
                   force_refresh, cache_file, total_count, offset, all_wells,
                   requests, occ_out, production_data, manual_result>>

\* generate_summary_report(results) on what the batch returned.
SummaryReport ==
    /\ pc = "batch_done"
    /\ report' = GenerateSummaryReport(batch_out.returned, now)
    /\ pc' = "summary_done"
    /\ UNCHANGED <<thresholds, categories, production_records, well_info,
                   sort_ties, now, result, result2, score_in, category_in,
                   recommendations, wells_production_data, results, batch_out,
                   production_df, asof, feats, ranked, method, max_retries,
                   attempt, responses, sleeps, outcome, api10_list,
                   cache_path, batch_no, searched, records, df_out,
                   force_refresh, cache_file, total_count, offset, all_wells,
                   requests, occ_out, production_data, manual_result>>

NextBatch == BatchAnalyzeNext \/ BatchReturn \/ SummaryReport

SpecBatch == InitBatch /\ [][NextBatch]_vars

----------------------------------------------------------------------------
(* batch_analyze_wells on two histories of one well: every month below the   *)
(* viable threshold, and the same history with some months raised.           *)

\* Histories of 6, 9, 24 and 30 months at 500 or 999, of which 6, 7, 24 or 30
\* months are raised to 4000, 4500 or 19999.
InitMono ==
    /\ pc = "batch_loop"
    /\ wells_production_data \in
           \* the pair: the base history, and the history with k months
           \* raised, the last k ("tail") or the first k ("head")
           LET MonoPair(len, b, r, k, place) ==
                   << Well(SampleWellInfo, ExpandRuns(<<Run(b, len)>>, 1)),
                      Well(SampleWellInfo,
                           IF place = "tail"
                           THEN ExpandRuns(<<Run(b, len - k), Run(r, k)>>, 2)
                           ELSE ExpandRuns(<<Run(r, k), Run(b, len - k)>>, 2)) >>
           IN
           { MonoPair(p[1], p[2], p[3], p[4], p[5]) :
                 p \in { q \in {6, 9, 24, 30} \X {500, 999}
                                  \X {4000, 4500, 19999} \X {6, 7, 24, 30}
                                  \X {"tail", "head"} : q[4] <= q[1] } }
    /\ results = <<>>
    /\ batch_out = NoResult
    /\ thresholds = InitThresholds(NoneValue)
    /\ categories = REACTIVATION_CATEGORIES
    /\ production_records = <<>>
    /\ well_info = NoneValue
    /\ sort_ties = "stable"
    /\ now = 0
    /\ result = NoResult
    /\ result2 = NoResult
    /\ score_in = 0
    /\ category_in = "NO_DATA"
    /\ recommendations = NoResult
    /\ report = NoResult
    /\ production_df = <<>>
    /\ asof = 0
    /\ feats = <<>>
    /\ ranked = <<>>
    /\ IoIdle

SpecMono == InitMono /\ [][NextBatch]_vars

----------------------------------------------------------------------------
(* The ranking pipeline on tables of monthly production rows.                *)

MaxFeatWells == 2        \* every table of up to this many wells is tried

\* The calendar month of year y, and the year and month of a month number.
YM(y, m) == y * 12 + m - 1

\* Histories: 24 producing months then 6 reported at zero; a steady year; a
\* single producing month after three at zero; a single negative volume;
\* zeros only; a negative last month; 40 rising months; a well shut in for
\* over ten years; a decline; a row whose date names no day; two rows for
\* one month; no row with a date; two months whose CV is exactly 0.5; a well
\* whose last row is of 2013-12; one producing month followed by 39 months
\* reported at zero.
History(h, wid) ==
    \* the rows of the well: one per month from first on, with these volumes
    LET MonthlyRows(w, first, vols) ==
            [i \in 1..Len(vols) |->
                [wellId |-> w,
                 reportDate |-> Date((first + i - 1) \div 12,
                                     ((first + i - 1) % 12) + 1, 1),
                 wellGas |-> Num(vols[i])]]
    IN
    CASE h = 1  -> MonthlyRows(wid, YM(2020, 1),
                               [i \in 1..30 |-> IF i <= 24 THEN 100 ELSE 0])
      [] h = 2  -> MonthlyRows(wid, YM(2022, 7), [i \in 1..12 |-> 50])
      [] h = 3  -> MonthlyRows(wid, YM(2023, 3), <<0, 0, 0, 400>>)
      [] h = 4  -> MonthlyRows(wid, YM(2023, 6), <<-50>>)
      [] h = 5  -> MonthlyRows(wid, YM(2023, 4), <<0, 0, 0>>)
      [] h = 6  -> MonthlyRows(wid, YM(2023, 5), <<100, -50>>)
      [] h = 7  -> MonthlyRows(wid, YM(2020, 1), [i \in 1..40 |-> 10 * i])
      [] h = 8  -> MonthlyRows(wid, YM(2010, 1), [i \in 1..6 |-> 800])
      [] h = 9  -> MonthlyRows(wid, YM(2023, 1), <<400, 300, 200, 100, 50, 20>>)
      [] h = 10 -> MonthlyRows(wid, YM(2023, 1), <<200, 200, 200>>)
                   \o << [wellId |-> wid, reportDate |-> Date(2023, 13, 1),
                          wellGas |-> Num(900)] >>
      [] h = 11 -> MonthlyRows(wid, YM(2023, 5), <<100, 300>>)
                   \o << [wellId |-> wid, reportDate |-> Date(2023, 6, 1),
                          wellGas |-> Num(0)] >>
      [] h = 12 -> << [wellId |-> wid, reportDate |-> Date(2023, 2, 30),
                       wellGas |-> Num(300)] >>
      [] h = 13 -> MonthlyRows(wid, YM(2023, 5), <<50, 150>>)
      [] h = 14 -> MonthlyRows(wid, YM(2013, 7), [i \in 1..6 |-> 600])
      [] h = 15 -> MonthlyRows(wid, YM(2019, 1),
                               [i \in 1..40 |-> IF i = 1 THEN 500 ELSE 0])

\* The table of the wells 1..Len(hs), well w with history hs[w].
RECURSIVE ProductionTable(_, _)
ProductionTable(hs, w) ==
    IF w > Len(hs) THEN <<>>
    ELSE History(hs[w], w) \o ProductionTable(hs, w + 1)

\* Every table of up to MaxFeatWells wells of the histories 1, 2, 3, 5, 8 and
\* 12, every table of one well, and long tables; or a table that carries the
\* year and the month of a row but no reportDate.
InitFeat ==
    /\ pc = "pipeline"
    /\ \/ \E hs \in UNION {[1..k -> {1, 2, 3, 5, 8, 12}] : k \in 0..MaxFeatWells}
                     \cup {<<h>> : h \in 1..15}
                     \cup { <<1, 2, 3, 4, 5, 6, 7, 8, 9, 10, 11>>,
                            <<2, 2, 9, 2, 2, 2, 2, 7, 2, 2, 12, 3>>,
                            <<9, 2, 7, 2, 2, 2, 2, 2, 2, 2, 2, 2, 1>>,
                            <<13, 14, 8, 3, 2, 9, 7, 1, 10, 11, 15, 5>>,
                            [w \in 1..20 |-> 2] } :
             production_df = ProductionTable(hs, 1)
       \/ production_df =
             << [wellId |-> 1, reportYear |-> Num(2023),
                 reportMonth |-> Num(5), wellGas |-> Num(100)],
                [wellId |-> 1, reportYear |-> Num(2023),
                 reportMonth |-> Num(6), wellGas |-> Num(120)] >>
    /\ asof \in {YM(2023, 12), YM(2024, 6)}
    /\ sort_ties \in {"stable", "reversed"}
    /\ feats = <<>>
    /\ ranked = <<>>
    /\ IoIdle
    /\ thresholds = InitThresholds(NoneValue)
    /\ categories = REACTIVATION_CATEGORIES
    /\ production_records = <<>>
    /\ well_info = NoneValue
    /\ now = 0
    /\ result = NoResult
    /\ result2 = NoResult
    /\ score_in = 0
    /\ category_in = "NO_DATA"
    /\ recommendations = NoResult
    /\ wells_production_data = <<>>
    /\ results = <<>>
    /\ batch_out = NoResult
    /\ report = NoResult

\* feats = engineer_features(prod), when prod has rows.
PipelineFeatures ==
    /\ pc = "pipeline"
    /\ Len(production_df) > 0
    /\ LET r == EngineerFeatures(production_df, sort_ties, asof)
       IN  IF r.raised
           THEN pc' = "raised" /\ feats' = feats
           ELSE pc' = "features" /\ feats' = r.rows
    /\ UNCHANGED <<thresholds, categories, production_records, well_info,
                   sort_ties, now, result, result2, score_in, category_in,
                   recommendations, wells_production_data, results, batch_out,
                   report, production_df, asof, ranked, method, max_retries,
                   attempt, responses, sleeps, outcome, api10_list,
                   cache_path, batch_no, searched, records, df_out,
                   force_refresh, cache_file, total_count, offset, all_wells,
                   requests, occ_out, production_data, manual_result>>

\* No production rows: the pipeline ends without a ranking.
PipelineNoRows ==
    /\ pc = "pipeline"
    /\ Len(production_df) = 0
    /\ pc' = "pipeline_done"
    /\ UNCHANGED <<thresholds, categories, production_records, well_info,
                   sort_ties, now, result, result2, score_in, category_in,
                   recommendations, wells_production_data, results, batch_out,
                   report, production_df, asof, feats, ranked, method,
                   max_retries, attempt, responses, sleeps, outcome,
                   api10_list, cache_path, batch_no, searched, records,
                   df_out, force_refresh, cache_file, total_count, offset,
                   all_wells, requests, occ_out, production_data,
                   manual_result>>

\* The filter, the score and the sort that write ranked_candidates.csv.
PipelineRank ==
    /\ pc = "features"
    /\ ranked' = RankCandidates(feats, Apis, sort_ties)
    /\ pc' = "ranked"
    /\ UNCHANGED <<thresholds, categories, production_records, well_info,
                   sort_ties, now, result, result2, score_in, category_in,
                   recommendations, wells_production_data, results, batch_out,
                   report, production_df, asof, feats, method, max_retries,
                   attempt, responses, sleeps, outcome, api10_list,
                   cache_path, batch_no, searched, records, df_out,
                   force_refresh, cache_file, total_count, offset, all_wells,
                   requests, occ_out, production_data, manual_result>>

NextFeat == PipelineFeatures \/ PipelineNoRows \/ PipelineRank

SpecFeat == InitFeat /\ [][NextFeat]_vars

----------------------------------------------------------------------------
(* Properties of analyze_well, checked under Spec. *)

Called == pc \in {"called", "called_twice"}

\* The frame the call prepared from its input.
Prepared == PrepareProductionData(production_records, sort_ties)

\* The gas_mcf column of the normalized series, oldest row first.
NormalizedGas ==
    LET rows == Prepared.rows
    IN  [k \in 1..Len(rows) |-> rows[k].gas_mcf]

\* The decision list as stated: the trailing window is the last 24 rows of
\* the series g; the first rule that matches decides.
C1_Expected(g) ==
    LET w    == TailSeq(g, 24)
        n4k  == Cardinality({i \in DOMAIN w : w[i] >= 4000})
        n20k == Cardinality({i \in DOMAIN w : w[i] >= 20000})
        n1k  == Cardinality({i \in DOMAIN w : w[i] >= 1000})
        wsum == SumSeq(w)
        wmax == MaxSeq(w)
        amax == MaxSeq(g)
    IN  IF n4k >= 6 /\ wsum >= 4000 * Len(w) THEN <<"HIGH_POTENTIAL", 95>>
        ELSE IF n20k >= 1 /\ wmax >= 20000 THEN <<"SURGE_POTENTIAL", 85>>
        ELSE IF n1k >= 3 /\ wsum >= 1000 * Len(w) THEN <<"DECLINING_VIABLE", 70>>
        ELSE IF amax >= 20000 THEN <<"SPORADIC_STRONG", 60>>
        ELSE IF amax >= 1000 THEN <<"SPORADIC_MODERATE", 40>>
        ELSE <<"LOW_POTENTIAL", 20>>

\* C1: for every non-empty normalized series, analyze_well returns the
\* category and score of the first rule of the ordered decision list that
\* matches on the trailing window of the last 24 positive rows (rows >= 4000
\* at least 6 and window mean >= 4000: HIGH_POTENTIAL 95; rows >= 20000 at
\* least 1 and window max >= 20000: SURGE_POTENTIAL 85; rows >= 1000 at least
\* 3 and window mean >= 1000: DECLINING_VIABLE 70; all-time max >= 20000:
\* SPORADIC_STRONG 60; all-time max >= 1000: SPORADIC_MODERATE 40; otherwise
\* LOW_POTENTIAL 20).
C1_DecisionList ==
    Called =>
        LET g == NormalizedGas
        IN  Len(g) > 0 =>
                /\ HasReturned(result)
                /\ <<result.category, result.reactivation_score>>
                       = C1_Expected(g)

\* Scenario B: exactly six months at 4500 MCF match rules 1, 3 and 5, and the
\* call returned the earliest, HIGH_POTENTIAL with 95.
C1_Witness ==
    /\ pc = "called"
    /\ NormalizedGas = <<4500, 4500, 4500, 4500, 4500, 4500>>
    /\ HasReturned(result)
    /\ result.category = "HIGH_POTENTIAL"
    /\ result.reactivation_score = 95

EightCategories ==
    {"HIGH_POTENTIAL", "SURGE_POTENTIAL", "DECLINING_VIABLE", "SPORADIC_STRONG",
     "SPORADIC_MODERATE", "LOW_POTENTIAL", "NO_PRODUCTION", "NO_DATA"}

C3_Coherent(r) ==
    /\ r.category \in EightCategories
    /\ r.category \in DOMAIN REACTIVATION_CATEGORIES
    /\ r.reactivation_score \in 0..100
    /\ r.reactivation_score = REACTIVATION_CATEGORIES[r.category].score
    /\ r.category_name = REACTIVATION_CATEGORIES[r.category].name

\* C3: whenever analyze_well returns, the category is one of the eight keys
\* of REACTIVATION_CATEGORIES, the score lies in 0..100 and is exactly the
\* score the table declares for that category, and category_name is the
\* table's display name of the category.
C3_CategoryTable ==
    /\ (Called /\ HasReturned(result)) => C3_Coherent(result)
    /\ (pc = "called_twice" /\ HasReturned(result2)) => C3_Coherent(result2)

\* A series decided by the tree with a score that differs from the
\* category's min_score.
C3_Witness ==
    /\ pc = "called"
    /\ HasReturned(result)
    /\ result.category = "SPORADIC_STRONG"
    /\ result.reactivation_score = 60

\* A short-circuit result: the category with score 0 and no metrics.
IsShortCircuit(r, category) ==
    /\ HasReturned(r)
    /\ r.category = category
    /\ r.reactivation_score = 0
    /\ r.metrics = EmptyDict

\* C2: an empty record list yields NO_DATA with score 0; a non-empty list in
\* which no record has positive gas yields NO_PRODUCTION with score 0; neither
\* is produced for a list with a positive-gas record whose date resolves.
\* Gas and date are taken here as the normalizer itself resolves them.
C2_ShortCircuits ==
    Called =>
        LET gas   == GasMcf(production_records)
            dates == ProductionDates(production_records)
            n     == Len(production_records)
        IN  /\ n = 0 => IsShortCircuit(result, "NO_DATA")
            /\ (n > 0 /\ \A i \in 1..n : gas[i] <= 0)
                   => IsShortCircuit(result, "NO_PRODUCTION")
            /\ (\E i \in 1..n : gas[i] > 0 /\ ~dates[i].nat)
                   => ~(HasReturned(result)
                        /\ result.category \in {"NO_DATA", "NO_PRODUCTION"})

\* The date of one record as the specification resolves it: the full date if
\* the record carries one, else the first day of its year and month.
ClaimDate(rec) ==
    IF "reportDate" \in DOMAIN rec THEN ToDatetime(rec.reportDate)
    ELSE IF "reportYear" \in DOMAIN rec /\ "reportMonth" \in DOMAIN rec
         THEN ToDatetime(Date(FillNa0(ToNumeric(rec.reportYear)),
                              FillNa0(ToNumeric(rec.reportMonth)), 1))
         ELSE NaT

\* The gas volume of one record as the specification resolves it: the primary
\* field if the record carries it, else the fallback field, else zero.
ClaimGas(rec) ==
    IF "wellGas" \in DOMAIN rec THEN FillNa0(ToNumeric(rec.wellGas))
    ELSE IF "totalGas" \in DOMAIN rec THEN FillNa0(ToNumeric(rec.totalGas))
    ELSE 0

FullyFormed(r) ==
    {"category", "category_name", "reactivation_score", "analysis", "metrics",
     "business_recommendations", "analysis_date"} \subseteq DOMAIN r

\* C5: analyze_well returns a fully-formed result for every list of records
\* and never raises because of a row; a row whose date cannot be resolved is
\* dropped, and when that removes every row of a non-empty list the result is
\* NO_PRODUCTION with score 0.
C5_NeverRaises ==
    Called =>
        /\ HasReturned(result)
        /\ FullyFormed(result)
        /\ (/\ Len(production_records) > 0
            /\ \A i \in DOMAIN production_records :
                   ClaimDate(production_records[i]).nat)
               => IsShortCircuit(result, "NO_PRODUCTION")

\* C6: every result analyze_well returns, the short-circuit results included,
\* carries the caller's well metadata under well_info, unmodified, and the
\* empty mapping when none was supplied.
C6_WellInfoPassThrough ==
    (Called /\ HasReturned(result)) =>
        /\ "well_info" \in DOMAIN result
        /\ result.well_info = (IF IsNone(well_info) THEN EmptyDict ELSE well_info)

\* C7: when _prepare_production_data returns a frame, its rows are exactly
\* the input records whose gas_mcf is > 0 and whose production_date is not
\* NaT, each once (records of equal date are all kept), in ascending date
\* order, with their values unchanged.
C7_NormalizedSeries ==
    (Called /\ ~Prepared.raised) =>
        LET rows  == Prepared.rows
            frame == FrameRows(production_records)
            keep  == {i \in 1..Len(production_records) :
                         frame[i].gas_mcf > 0 /\ ~frame[i].production_date.nat}
        IN  /\ {rows[k].idx : k \in 1..Len(rows)} = keep
            /\ Len(rows) = Cardinality(keep)
            /\ \A k \in 1..Len(rows) :
                   /\ rows[k].gas_mcf = frame[rows[k].idx].gas_mcf
                   /\ rows[k].gas_mcf > 0
                   /\ rows[k].production_date
                          = frame[rows[k].idx].production_date.days
            /\ \A k \in 1..(Len(rows) - 1) :
                   rows[k].production_date <= rows[k + 1].production_date

\* Three records kept, the last of the input sorted to the front and the
\* other two sharing a date.
C7_Witness ==
    /\ pc = "called"
    /\ Len(production_records) = 3
    /\ ~Prepared.raised
    /\ Len(Prepared.rows) = 3
    /\ Prepared.rows[1].idx = 3
    /\ Prepared.rows[2].production_date = Prepared.rows[3].production_date

\* The number of producing months a result reports.
ProducingMonths(r) ==
    IF "total_months" \in DOMAIN r.metrics THEN r.metrics.total_months ELSE 0

\* C8: gas is resolved record by record (primary field, else the fallback
\* field if the record lacks the primary, else zero) and so is the date (full
\* date, else year and month with day 1), so that every record with positive
\* gas under either name and a date of either form counts as a producing
\* month, whatever fields the other records of the list carry.
C8_PerRecordResolution ==
    Called =>
        /\ HasReturned(result)
        /\ ProducingMonths(result)
               = Cardinality({i \in DOMAIN production_records :
                                 /\ ClaimGas(production_records[i]) > 0
                                 /\ ~ClaimDate(production_records[i]).nat})

\* Two results that agree on everything but analysis_date.
SameButDate(r1, r2) ==
    IF HasReturned(r1) /\ HasReturned(r2)
    THEN [r1 EXCEPT !.analysis_date = 0] = [r2 EXCEPT !.analysis_date = 0]
    ELSE ~HasReturned(r1) /\ ~HasReturned(r2)

----------------------------------------------------------------------------
(* Properties of _generate_business_recommendations, checked under SpecRec. *)

\* The band of a score as stated.
C4_Band(score) ==
    IF score >= 85 THEN "IMMEDIATE"
    ELSE IF score >= 70 THEN "HIGH"
    ELSE IF score >= 50 THEN "MODERATE"
    ELSE "LOW"

\* The priority stated for each category.
C4_PriorityOfCategory ==
    [HIGH_POTENTIAL |-> "IMMEDIATE", SURGE_POTENTIAL |-> "IMMEDIATE",
     DECLINING_VIABLE |-> "HIGH", SPORADIC_STRONG |-> "MODERATE",
     SPORADIC_MODERATE |-> "LOW", LOW_POTENTIAL |-> "LOW",
     NO_PRODUCTION |-> "LOW", NO_DATA |-> "LOW"]

\* C4: the recommendation is the fixed block of the score's band (>= 85
\* IMMEDIATE, 70..84 HIGH, 50..69 MODERATE, below 50 LOW) whatever the
\* category argument is, so that a category passed with its declared score
\* gets the priority stated for it.
C4_BandLookup ==
    pc = "rec_done" =>
        /\ recommendations = RecommendationBlocks[C4_Band(score_in)]
        /\ recommendations.priority = C4_Band(score_in)
        /\ score_in = REACTIVATION_CATEGORIES[category_in].score
               => recommendations.priority = C4_PriorityOfCategory[category_in]

\* SURGE_POTENTIAL with its score 85, the lowest score of the top band.
C4_Witness ==
    /\ pc = "rec_done"
    /\ category_in = "SURGE_POTENTIAL"
    /\ score_in = 85
    /\ recommendations.priority = "IMMEDIATE"

----------------------------------------------------------------------------
(* Properties of batch_analyze_wells, checked under SpecBatch. *)

\* C10: batch_analyze_wells returns exactly one result per input pair, in
\* input order, and each well's category, score and metrics are those of
\* analyze_well on that well alone; the analyzer's thresholds and the category
\* table are as they were before the batch.
C10_BatchIndependent ==
    pc \in {"batch_done", "batch_raised"} =>
        /\ "returned" \in DOMAIN batch_out
        /\ Len(batch_out.returned) = Len(wells_production_data)
        /\ \A i \in 1..Len(wells_production_data) :
               LET w     == wells_production_data[i]
                   alone == AnalyzeWellResult(w.production_records, w.well_info,
                                              InitThresholds(NoneValue),
                                              REACTIVATION_CATEGORIES,
                                              sort_ties, now)
               IN  SameButDate(batch_out.returned[i], alone)
        /\ thresholds = InitThresholds(NoneValue)
        /\ categories = REACTIVATION_CATEGORIES

----------------------------------------------------------------------------
(* The 4000-MCF threshold, checked under SpecMono. *)

\* The wellGas volumes of a list of records that all carry a number.
GasOf(recs) == [i \in 1..Len(recs) |-> recs[i].wellGas.v]

\* The places of the trailing window (the last 24 rows) in a series of n rows.
WindowPlaces(n) == {i \in 1..n : i > n - 24}

\* base and raised differ only in months raised to 4000 or more, at least six
\* of them in the trailing window; every other month is below the viable
\* threshold and no month reaches the surge threshold.
C11_Pair(base, raised) ==
    /\ Len(base) = Len(raised)
    /\ \A i \in DOMAIN base :
           /\ base[i] > 0 /\ base[i] < 1000
           /\ raised[i] = base[i] \/ raised[i] >= 4000
           /\ raised[i] < 20000
    /\ Cardinality({i \in WindowPlaces(Len(raised)) : raised[i] >= 4000}) >= 6

C11_BatchDone ==
    /\ pc = "batch_done"
    /\ Len(wells_production_data) = 2
    /\ C11_Pair(GasOf(wells_production_data[1].production_records),
                GasOf(wells_production_data[2].production_records))

\* C11 as stated: of two series that differ only in that one has at least 6
\* trailing-window months raised to or above 4000 MCF, every other value
\* below the viable and surge thresholds, the raised one is classified
\* HIGH_POTENTIAL and the other one is not.
C11_Monotone ==
    C11_BatchDone =>
        /\ batch_out.returned[2].category = "HIGH_POTENTIAL"
        /\ batch_out.returned[1].category # "HIGH_POTENTIAL"

\* C11 amended: the series that is not raised is never HIGH_POTENTIAL, and
\* the raised series is HIGH_POTENTIAL exactly when the mean of its trailing
\* window is also at least 4000 MCF.
C11_MonotoneWithMean ==
    C11_BatchDone =>
        LET raised == GasOf(wells_production_data[2].production_records)
            w      == TailSeq(raised, 24)
        IN  /\ batch_out.returned[1].category # "HIGH_POTENTIAL"
            /\ batch_out.returned[2].category = "HIGH_POTENTIAL"
                   <=> SumSeq(w) >= 4000 * Len(w)

\* 24 months at 999, the last six raised to 19999: window mean 5749.
C11_Witness ==
    /\ C11_BatchDone
    /\ Len(wells_production_data[2].production_records) = 24
    /\ GasOf(wells_production_data[2].production_records)[1] = 999
    /\ GasOf(wells_production_data[2].production_records)[24] = 19999
    /\ batch_out.returned[2].category = "HIGH_POTENTIAL"
    /\ batch_out.returned[1].category = "LOW_POTENTIAL"

----------------------------------------------------------------------------
(* Scenario A, checked under Spec. *)

\* The calendar month of a record's full date, counted from year 0.
MonthIndex(rec) == rec.reportDate.y * 12 + rec.reportDate.m

\* The records of the normalized series, oldest first.
NormalizedRecords ==
    LET rows == Prepared.rows
    IN  [k \in 1..Len(rows) |-> production_records[rows[k].idx]]

\* Nine producing months, strictly declining from 28000 to 1000 MCF.
C12_NineDeclining(g) ==
    /\ Len(g) = 9
    /\ g[1] = 28000
    /\ g[9] = 1000
    /\ \A i \in 1..8 : g[i] > g[i + 1]

\* No month of 4000 MCF or more within the 24 calendar months that end at
\* the last producing month.
C12_NoRecent4k(recs, g) ==
    \A i \in 1..Len(g) :
        MonthIndex(recs[i]) > MonthIndex(recs[Len(g)]) - 24 => g[i] < 4000

\* C12 as stated: a well with 9 months of production strictly declining from
\* 28000 to 1000 MCF, whose peak months are older than the most recent 24
\* months (no month above 4000 in them), is categorized SPORADIC_STRONG with
\* score 60.
C12_ScenarioA ==
    (Called /\ ~Prepared.raised /\ C12_NineDeclining(NormalizedGas)
            /\ C12_NoRecent4k(NormalizedRecords, NormalizedGas)) =>
        /\ HasReturned(result)
        /\ result.category = "SPORADIC_STRONG"
        /\ result.reactivation_score = 60

\* C12 amended: the trailing window is the last 24 rows whatever their
\* dates, so all nine months of such a well are recent: it is categorized
\* SURGE_POTENTIAL (85), or HIGH_POTENTIAL (95) when at least six of the nine
\* values are >= 4000 and their mean is >= 4000, and never SPORADIC_STRONG.
\* SPORADIC_STRONG (60) is the category of a series whose all-time max is
\* >= 20000 while its last 24 rows hold no value >= 4000 and do not hold
\* three values >= 1000 together with a mean >= 1000.
C12_RowWindow ==
    (Called /\ ~Prepared.raised /\ Len(NormalizedGas) > 0) =>
        LET g == NormalizedGas
            w == TailSeq(g, 24)
        IN  /\ C12_NineDeclining(g) =>
                   /\ HasReturned(result)
                   /\ <<result.category, result.reactivation_score>> =
                          (IF Cardinality({i \in 1..9 : g[i] >= 4000}) >= 6
                              /\ SumSeq(g) >= 4000 * 9
                           THEN <<"HIGH_POTENTIAL", 95>>
                           ELSE <<"SURGE_POTENTIAL", 85>>)
            /\ (/\ \E i \in DOMAIN g : g[i] >= 20000
                /\ \A i \in DOMAIN w : w[i] < 4000
                /\ ~(/\ Cardinality({i \in DOMAIN w : w[i] >= 1000}) >= 3
                     /\ SumSeq(w) >= 1000 * Len(w)))
                   => /\ HasReturned(result)
                      /\ result.category = "SPORADIC_STRONG"
                      /\ result.reactivation_score = 60

\* The sparse nine-month history whose months of 4000 or more are all older
\* than 24 calendar months: SURGE_POTENTIAL.
C12_Witness ==
    /\ pc = "called"
    /\ C12_NineDeclining(NormalizedGas)
    /\ C12_NoRecent4k(NormalizedRecords, NormalizedGas)
    /\ HasReturned(result)
    /\ result.category = "SURGE_POTENTIAL"

----------------------------------------------------------------------------
(* The trend label, checked under Spec. *)

\* The label of the ratio of two means, each given by its sum and its count:
\* above 1.10 INCREASING, below 0.90 DECLINING, otherwise STABLE.
C20_Label(later, earlier) ==
    LET sl == SumSeq(later)
        se == SumSeq(earlier)
    IN  IF 10 * sl * Len(earlier) > 11 * se * Len(later) THEN "INCREASING"
        ELSE IF 10 * sl * Len(earlier) < 9 * se * Len(later) THEN "DECLINING"
        ELSE "STABLE"

\* The labels the statement allows for a series g: with 12 to 23 rows the
\* series is cut in two halves that between them hold every row, the middle
\* row of an odd count in either half.
C20_Labels(g) ==
    LET n == Len(g)
    IN  IF n < 12 THEN {"INSUFFICIENT_DATA"}
        ELSE IF n >= 24
            THEN {C20_Label(SubSeq(g, n - 11, n), SubSeq(g, n - 23, n - 12))}
        ELSE {C20_Label(SubSeq(g, h + 1, n), SubSeq(g, 1, h)) :
                  h \in {n \div 2, n - (n \div 2)}}

\* C20: the trend label of a normalized series of n rows is
\* INSUFFICIENT_DATA for n < 12; for n >= 24 it compares the mean of the last
\* 12 rows with the mean of the 12 rows before them; for 12 <= n <= 23 it
\* compares the means of two halves that partition the rows; a ratio above
\* 1.10 is INCREASING, below 0.90 DECLINING, and anything else, exactly 1.10
\* and 0.90 included, STABLE.
C20_TrendLabel ==
    (Called /\ HasReturned(result) /\ Len(NormalizedGas) > 0) =>
        result.metrics.production_trend \in C20_Labels(NormalizedGas)

----------------------------------------------------------------------------
(* Overridden thresholds, checked under SpecTh. *)

\* The value in force for a threshold: the supplied one, else the default.
C19_InForce(key, default) ==
    IF key \in DOMAIN thresholds THEN thresholds[key] ELSE default

\* The decision list over the window of the last a rows of g, with the
\* thresholds h (high), s (surge) and v (viable).
C19_Expected(g, h, s, v, a) ==
    LET w == TailSeq(g, a)
    IN  IF Cardinality({i \in DOMAIN w : w[i] >= h}) >= 6
           /\ SumSeq(w) >= h * Len(w)
        THEN "HIGH_POTENTIAL"
        ELSE IF \E i \in DOMAIN w : w[i] >= s THEN "SURGE_POTENTIAL"
        ELSE IF Cardinality({i \in DOMAIN w : w[i] >= v}) >= 3
                /\ SumSeq(w) >= v * Len(w)
        THEN "DECLINING_VIABLE"
        ELSE IF \E i \in DOMAIN g : g[i] >= s THEN "SPORADIC_STRONG"
        ELSE IF \E i \in DOMAIN g : g[i] >= v THEN "SPORADIC_MODERATE"
        ELSE "LOW_POTENTIAL"

\* C19: with an analyzer constructed on a thresholds mapping, the trailing
\* window is the last ANALYSIS_MONTHS rows, the three month counts are taken
\* against HIGH_CONSISTENT, SURGE_PEAK and VIABLE_MINIMUM, and every rule of
\* the decision list compares against the same values, each the supplied one
\* or, for a key the mapping lacks, the default 4000 / 20000 / 1000 / 24.
C19_ThresholdsInForce ==
    (Called /\ Len(NormalizedGas) > 0) =>
        LET g == NormalizedGas
            h == C19_InForce("HIGH_CONSISTENT", 4000)
            s == C19_InForce("SURGE_PEAK", 20000)
            v == C19_InForce("VIABLE_MINIMUM", 1000)
            a == C19_InForce("ANALYSIS_MONTHS", 24)
            w == TailSeq(g, a)
        IN  /\ HasReturned(result)
            /\ result.metrics.recent_months_analyzed = Len(w)
            /\ result.metrics.months_above_4k
                   = Cardinality({i \in DOMAIN w : w[i] >= h})
            /\ result.metrics.months_above_20k
                   = Cardinality({i \in DOMAIN w : w[i] >= s})
            /\ result.metrics.months_above_1k
                   = Cardinality({i \in DOMAIN w : w[i] >= v})
            /\ result.category = C19_Expected(g, h, s, v, a)

\* Three months at 999 MCF under a mapping that lowers VIABLE_MINIMUM to 999
\* and names no HIGH_CONSISTENT: DECLINING_VIABLE, not LOW_POTENTIAL.
C19_Witness ==
    /\ pc = "called"
    /\ thresholds = [SURGE_PEAK |-> 4500, VIABLE_MINIMUM |-> 999]
    /\ NormalizedGas = <<999, 999, 999>>
    /\ HasReturned(result)
    /\ result.metrics.months_above_1k = 3
    /\ result.category = "DECLINING_VIABLE"

----------------------------------------------------------------------------
(* The summary report, checked under SpecBatch. *)

\* The identifiers, in input order, of the first ten results whose score
\* lies in lo..hi.
C18_Tier(rs, lo, hi) ==
    LET idx == {i \in DOMAIN rs : rs[i].reactivation_score >= lo
                                  /\ rs[i].reactivation_score <= hi}
        kth(k) == CHOOSE i \in idx : Cardinality({j \in idx : j < i}) = k - 1
        m == IF Cardinality(idx) > 10 THEN 10 ELSE Cardinality(idx)
    IN  [k \in 1..m |->
            IF "well_info" \in DOMAIN rs[kth(k)]
               /\ "api" \in DOMAIN rs[kth(k)].well_info
            THEN rs[kth(k)].well_info.api ELSE "Unknown"]

RECURSIVE C18_SumCounts(_, _)
C18_SumCounts(f, keys) ==
    IF keys = {} THEN 0
    ELSE LET c == CHOOSE x \in keys : TRUE
         IN  f[c] + C18_SumCounts(f, keys \ {c})

----------------------------------------------------------------------------
(* Properties of the feature engine and of the ranking, checked under        *)
(* SpecFeat.                                                                 *)

FeaturesDone == pc \in {"features", "ranked"}

\* The calendar months in which well wid reports a positive volume.
PositiveMonths(wid) ==
    LET gas == GasSeries(production_df, Columns(production_df))
    IN  { YM(production_df[i].reportDate.y, production_df[i].reportDate.m) :
              i \in { j \in 1..Len(production_df) :
                          /\ production_df[j].wellId = wid
                          /\ ~ToDatetime(production_df[j].reportDate).nat
                          /\ gas[j] > 0 } }

MaxOf(S) == CHOOSE m \in S : \A x \in S : x <= m

\* C13: months_since_prod of a well is the whole-calendar-month difference
\* between the as-of month and the last month in which the well reports a
\* positive volume; rows of zero volume after that month do not make the
\* well more recent.
C13_MonthsSinceLastPositive ==
    FeaturesDone =>
        \A i \in 1..Len(feats) :
            PositiveMonths(feats[i].wellId) # {} =>
                feats[i].months_since_prod
                    = asof - MaxOf(PositiveMonths(feats[i].wellId))

\* 0 <= f <= 1 for a fraction of positive denominator.
InUnitInterval(f) == f.sum >= 0 /\ f.sum <= f.n

\* C14: whatever the scale of the volumes, cv_12m of every feature row lies
\* in [0, 1.5], nonzero_frac_12m and last_to_peak_ratio_12m lie in [0, 1],
\* and consistency_score is 0.5*(1 - clip(cv,0,1.5)/1.5)
\* + 0.25*clip(nonzero_frac,0,1) + 0.25*clip(last_to_peak,0,1), in [0, 1].
C14_MetricRanges ==
    FeaturesDone =>
        \A i \in 1..Len(feats) :
            LET f == feats[i]
            IN  /\ f.cv_12m.sq_num >= 0
                /\ 4 * f.cv_12m.sq_num <= 9 * f.cv_12m.sq_den
                /\ InUnitInterval(f.nonzero_frac_12m)
                /\ InUnitInterval(f.last_to_peak_ratio_12m)
                /\ f.consistency_score >= 0
                /\ f.consistency_score <= FxScale
                /\ f.consistency_score
                     = (2 * (FxScale - FxDiv(Clip(f.cv_12m.fx, 0, 15000), 15000))
                        + Clip(FxOfFrac(f.nonzero_frac_12m), 0, FxScale)
                        + Clip(FxOfFrac(f.last_to_peak_ratio_12m), 0, FxScale))
                       \div 4

ZeroCv(cv) == cv.sq_num = 0 /\ cv.fx = 0

\* The volumes of the trailing 12 rows of the 36-month window of well wid.
C15_Last12(wid) ==
    LET rows      == GroupRows(production_df, wid, sort_ties)
        last_date == MaxSeq([i \in 1..Len(rows) |-> rows[i].production_date])
    IN  IF Len(rows) = 0 THEN <<>>
        ELSE TailSeq(GasOfRows(SelectSeq(rows,
                 LAMBDA r : r.production_date >= MinusMonths(last_date, 36))),
                 12)

C15_WindowMetrics ==
    {"gas_12m", "gas_24m", "gas_36m", "cv_12m", "nonzero_frac_12m",
     "last_to_peak_ratio_12m", "dq_prod_cov"}

\* C15: the feature engine never raises and every metric of every row is
\* defined; cv_12m and pre_stop_cv are 0 when the window mean is 0,
\* last_to_peak_ratio_12m and pre_stop_last_to_peak_ratio are 0 when the
\* window peak is 0, and a well with no dated row or no month of positive
\* volume has every window sum, consistency metric and pre-shut-in metric 0.
C15_RatiosDegradeToZero ==
    /\ (pc = "raised") => (DateMode(Columns(production_df)) # "date")
    /\ FeaturesDone =>
        \A i \in 1..Len(feats) :
            LET f      == feats[i]
                last12 == C15_Last12(f.wellId)
            IN  /\ C15_WindowMetrics \subseteq DOMAIN f
                /\ (SumSeq(last12) = 0) => ZeroCv(f.cv_12m)
                /\ (last12 = <<>> \/ MaxSeq(last12) = 0)
                       => f.last_to_peak_ratio_12m.sum = 0
                /\ (f.pre_stop_avg_mcf.sum = 0) => ZeroCv(f.pre_stop_cv)
                /\ (f.pre_stop_peak_mcf = 0)
                       => f.pre_stop_last_to_peak_ratio.sum = 0
                /\ (PositiveMonths(f.wellId) = {}) =>
                       /\ f.gas_12m = 0 /\ f.gas_24m = 0 /\ f.gas_36m = 0
                       /\ ZeroCv(f.cv_12m)
                       /\ f.nonzero_frac_12m.sum = 0
                       /\ f.last_to_peak_ratio_12m.sum = 0
                       /\ f.pre_stop_avg_mcf.sum = 0
                       /\ f.pre_stop_peak_mcf = 0
                       /\ ZeroCv(f.pre_stop_cv)
                       /\ f.pre_stop_nonzero_frac.sum = 0
                       /\ f.pre_stop_last_to_peak_ratio.sum = 0
                       /\ f.pre_stop_q90_mcf_d.sum = 0
                       /\ f.abrupt_stop_flag = 0

\* The wells of the feature table that pass the eligibility filter.
EligibleWells == {feats[i].wellId : i \in {j \in 1..Len(feats) : Eligible(feats[j])}}

\* C16: the ranked table is in descending order of score, holds every
\* eligible well once, and wells of equal score are in their input order
\* (the order of the feature table, ascending wellId).
C16_RankedOrder ==
    (pc = "ranked") =>
        /\ \A i, j \in 1..Len(ranked) :
               i < j => ranked[i].score >= ranked[j].score
        /\ {ranked[i].wellId : i \in 1..Len(ranked)} = EligibleWells
        /\ Len(ranked) = Cardinality(EligibleWells)
        /\ \A i, j \in 1..Len(ranked) :
               (i < j /\ ranked[i].score = ranked[j].score)
                   => ranked[i].wellId < ranked[j].wellId

\* The eligible rows of the feature table, which the scores are computed on.
KeptRows == SelectSeq(feats, Eligible)

\* C17: the eight weights sum to 1; on every ranked table each of the eight
\* components of every eligible well lies in [0, 1], so the weighted sum
\* lies in [0, 1], and the score written for the well is that sum less the
\* penalties, clipped, and lies in [0, 1].
C17_ScoreRange ==
    /\ Len(ScoreWeights) = 8
    /\ SumSeq(ScoreWeights) = 100
    /\ (pc = "ranked") =>
         /\ \A i \in 1..Len(KeptRows) :
                LET c == ScoreComponents(KeptRows, i)
                IN  /\ \A k \in 1..8 : c[k] >= 0 /\ c[k] <= FxScale
                    /\ WeightedSum(c) >= 0
                    /\ WeightedSum(c) <= ScoreOne
                    /\ \E j \in 1..Len(ranked) :
                           /\ ranked[j].wellId = KeptRows[i].wellId
                           /\ ranked[j].score
                                = Clip(WeightedSum(c)
                                         - PenaltyLongShutin(KeptRows[i])
                                         - PenaltyErratic(KeptRows[i]),
                                       0, ScoreOne)
         /\ \A j \in 1..Len(ranked) :
                ranked[j].score >= 0 /\ ranked[j].score <= ScoreOne

\* A ranked table of at least nine wells in which a component is at either
\* end of its range and both penalties are applied.
C17_Witness ==
    /\ pc = "ranked"
    /\ Len(ranked) >= 9
    /\ \E i \in 1..Len(KeptRows) :
           ScoreComponents(KeptRows, i)[1] = FxScale
    /\ \E i \in 1..Len(KeptRows) :
           ScoreComponents(KeptRows, i)[1] = 0
    /\ \E i \in 1..Len(KeptRows) : PenaltyLongShutin(KeptRows[i]) > 0
    /\ \E i \in 1..Len(KeptRows) : PenaltyErratic(KeptRows[i]) > 0
    /\ \E j \in 1..Len(ranked) :
           ranked[j].score > 0 /\ ranked[j].score < ScoreOne

\* The dated rows of well wid, by date.
RowsOf(wid) == GroupRows(production_df, wid, sort_ties)

\* The rows of the 36 calendar months that end with the month of the last row.
C21_Window(rows) ==
    LET last == MaxSeq([i \in 1..Len(rows) |-> rows[i].production_date])
    IN  SelectSeq(rows, LAMBDA r :
            MonthOfKey(r.production_date) > MonthOfKey(last) - 36)

C21_Months(rows) == {MonthOfKey(rows[i].production_date) : i \in 1..Len(rows)}

\* C21: the trailing window of a well is its rows of the 36 calendar months
\* ending at its last report date, so it spans at most 36 distinct months;
\* gas_36m is the sum over the window, gas_24m and gas_12m the sums over its
\* last 24 and 12 rows; for non-negative volumes gas_12m <= gas_24m <=
\* gas_36m <= gas_all_time; dq_prod_cov is the number of distinct months of
\* the window over 36, within [0, 1].
C21_TrailingWindows ==
    FeaturesDone =>
        \A i \in 1..Len(feats) :
            LET f    == feats[i]
                rows == RowsOf(f.wellId)
                g    == GasOfRows(C21_Window(rows))
            IN  Len(rows) > 0 =>
                  /\ f.gas_36m = SumSeq(g)
                  /\ f.gas_24m = SumSeq(TailSeq(g, 24))
                  /\ f.gas_12m = SumSeq(TailSeq(g, 12))
                  /\ (\A k \in 1..Len(rows) : rows[k].gas_mcf >= 0) =>
                         /\ f.gas_12m <= f.gas_24m
                         /\ f.gas_24m <= f.gas_36m
                         /\ f.gas_36m <= f.gas_all_time
                  /\ f.dq_prod_cov
                       = Frac(Cardinality(C21_Months(C21_Window(rows))), 36)
                  /\ InUnitInterval(f.dq_prod_cov)

\* The place of the last row of positive volume, 0 if there is none.
LastPositiveRow(rows) ==
    LET P == {k \in 1..Len(rows) : rows[k].gas_mcf > 0}
    IN  IF P = {} THEN 0 ELSE MaxOf(P)

\* C22: abrupt_stop_flag is 0 or 1; it is 0 for a well without a dated row
\* or without a row of positive volume, 1 when rows follow the last row of
\* positive volume (all of them at zero or below), and 0 when that row is
\* the last one.
C22_AbruptStopFlag ==
    FeaturesDone =>
        \A i \in 1..Len(feats) :
            LET f    == feats[i]
                rows == RowsOf(f.wellId)
                last == LastPositiveRow(rows)
            IN  /\ f.abrupt_stop_flag \in {0, 1}
                /\ (last = 0) => f.abrupt_stop_flag = 0
                /\ (last > 0 /\ last = Len(rows)) => f.abrupt_stop_flag = 0
                /\ (last > 0 /\ last < Len(rows)) =>
                       /\ \A k \in (last + 1)..Len(rows) : rows[k].gas_mcf <= 0
                       /\ f.abrupt_stop_flag = 1

\* A feature table with a well of 30 rows whose last 6 are at zero (flag 1),
\* a well that produces to its last row and a well without a positive row.
C22_Witness ==
    /\ FeaturesDone
    /\ \E i \in 1..Len(feats) :
           /\ Len(RowsOf(feats[i].wellId)) = 30
           /\ LastPositiveRow(RowsOf(feats[i].wellId)) = 24
           /\ feats[i].abrupt_stop_flag = 1
    /\ \E i \in 1..Len(feats) :
           /\ LastPositiveRow(RowsOf(feats[i].wellId)) = 12
           /\ Len(RowsOf(feats[i].wellId)) = 12
           /\ feats[i].abrupt_stop_flag = 0
    /\ \E i \in 1..Len(feats) :
           /\ Len(RowsOf(feats[i].wellId)) > 0
           /\ LastPositiveRow(RowsOf(feats[i].wellId)) = 0
           /\ feats[i].abrupt_stop_flag = 0

FracEq(a, b) == a.sum * b.n = b.sum * a.n

\* The rows up to the last positive row (at place last) that lie in the 12
\* calendar months ending with its month.
C23_Window(rows, last) ==
    LET end == MonthOfKey(rows[last].production_date)
    IN  SelectSeq(SubSeq(rows, 1, last), LAMBDA r :
            MonthOfKey(r.production_date) > end - 12)

\* C23: for a well with a positive month the pre-shut-in statistics are
\* those of the 12 calendar months ending at the last positive month:
\* average, peak and CV over the positive rows of the window, the rate proxy
\* the mean of its last min(3, k) positive rows over 30, hence 30 times the
\* proxy is at most the peak, and the last-to-peak ratio is in (0, 1].
C23_PreShutinStats ==
    FeaturesDone =>
        \A i \in 1..Len(feats) :
            LET f    == feats[i]
                rows == RowsOf(f.wellId)
                last == LastPositiveRow(rows)
                pos  == SelectSeq(GasOfRows(C23_Window(rows, last)), IsPositive)
                tail == TailSeq(pos, 3)
            IN  last > 0 =>
                  /\ FracEq(f.pre_stop_avg_mcf, MeanSeq(pos))
                  /\ f.pre_stop_peak_mcf = MaxSeq(pos)
                  /\ f.pre_stop_cv.fx = CoefficientOfVariation(pos).fx
                  /\ FracEq(f.pre_stop_q90_mcf_d,
                            Frac(SumSeq(tail), 30 * Len(tail)))
                  /\ f.pre_stop_q90_mcf_d.sum * 30
                       <= f.pre_stop_peak_mcf * f.pre_stop_q90_mcf_d.n
                  /\ f.pre_stop_last_to_peak_ratio.sum > 0
                  /\ f.pre_stop_last_to_peak_ratio.sum
                       <= f.pre_stop_last_to_peak_ratio.n

\* The row of the ranked table of well wid.
RankedRow(wid) ==
    ranked[CHOOSE j \in 1..Len(ranked) : ranked[j].wellId = wid]

\* C24: the score of a ranked well is its weighted sum less 0.15 if
\* months_since_prod > 120 (120 itself is not penalized) and less 0.05 if
\* cv_12m > 0.5 (0.5 itself is not penalized), then clipped to [0, 1]; it is
\* never above the clipped weighted sum of the same row.
C24_Penalties ==
    (pc = "ranked") =>
        \A i \in 1..Len(KeptRows) :
            LET f  == KeptRows[i]
                ws == WeightedSum(ScoreComponents(KeptRows, i))
                p1 == IF f.months_since_prod > 120 THEN 150000 ELSE 0
                p2 == IF 4 * f.cv_12m.sq_num > f.cv_12m.sq_den THEN 50000 ELSE 0
            IN  /\ \E j \in 1..Len(ranked) : ranked[j].wellId = f.wellId
                /\ RankedRow(f.wellId).score = Clip(ws - p1 - p2, 0, ScoreOne)
                /\ RankedRow(f.wellId).score <= Clip(ws, 0, ScoreOne)

\* A ranked table with a well at exactly 120 months and one beyond, a well
\* whose CV is exactly 0.5 and one above, and a score lowered by a penalty.
C24_Witness ==
    /\ pc = "ranked"
    /\ \E i \in 1..Len(KeptRows) : KeptRows[i].months_since_prod = 120
    /\ \E i \in 1..Len(KeptRows) : KeptRows[i].months_since_prod > 120
    /\ \E i \in 1..Len(KeptRows) :
           4 * KeptRows[i].cv_12m.sq_num = KeptRows[i].cv_12m.sq_den
    /\ \E i \in 1..Len(KeptRows) :
           4 * KeptRows[i].cv_12m.sq_num > KeptRows[i].cv_12m.sq_den
    /\ \E i \in 1..Len(KeptRows) :
           /\ RankedRow(KeptRows[i].wellId).score > 0
           /\ RankedRow(KeptRows[i].wellId).score
                < WeightedSum(ScoreComponents(KeptRows, i))

HasPositiveMonth(f) == PositiveMonths(f.wellId) # {}

\* C25: a feature row is ranked if and only if gas_36m > 0 or q90_mcf_d > 0
\* or nonzero_months_all > 0; every well with a positive month is ranked, a
\* well whose volumes are all zero is not, and the scores are those computed
\* over the wells with a positive month only.
C25_EligibilityFilter ==
    (pc = "ranked") =>
        LET RankedWells == {ranked[j].wellId : j \in 1..Len(ranked)}
            batch       == SelectSeq(feats, HasPositiveMonth)
        IN  /\ \A i \in 1..Len(feats) :
                   LET f == feats[i]
                   IN  /\ (f.wellId \in RankedWells)
                            <=> (\/ f.gas_36m > 0
                                 \/ f.q90_mcf_d.sum > 0
                                 \/ f.nonzero_months_all > 0)
                       /\ HasPositiveMonth(f) => f.wellId \in RankedWells
                       /\ (\A k \in 1..Len(RowsOf(f.wellId)) :
                               RowsOf(f.wellId)[k].gas_mcf = 0)
                              => f.wellId \notin RankedWells
            /\ Len(ranked) = Len(batch)
            /\ \A i \in 1..Len(batch) :
                   /\ batch[i].wellId \in RankedWells
                   /\ RankedRow(batch[i].wellId).score = CompositeScore(batch, i)

\* A ranked table made from a feature table with a well at zero throughout
\* (left out), a well kept only for a positive month older than the window,
\* and wells kept for recent production.
C25_Witness ==
    /\ pc = "ranked"
    /\ Len(ranked) >= 2
    /\ \E i \in 1..Len(feats) :
           /\ Len(RowsOf(feats[i].wellId)) > 0
           /\ \A k \in 1..Len(RowsOf(feats[i].wellId)) :
                  RowsOf(feats[i].wellId)[k].gas_mcf = 0
           /\ \A j \in 1..Len(ranked) : ranked[j].wellId # feats[i].wellId
    /\ \E i \in 1..Len(feats) :
           /\ feats[i].gas_36m = 0
           /\ feats[i].q90_mcf_d.sum = 0
           /\ feats[i].nonzero_months_all > 0
           /\ \E j \in 1..Len(ranked) : ranked[j].wellId = feats[i].wellId
    /\ \E i \in 1..Len(feats) :
           /\ feats[i].gas_36m > 0
           /\ \E j \in 1..Len(ranked) : ranked[j].wellId = feats[i].wellId

----------------------------------------------------------------------------
(* The row-count window of analyze_well, checked under Spec.                 *)

\* C26: when the normalized series has at most 24 rows, the window is the
\* whole series: the window max is the all-time max, the call never returns
\* SPORADIC_STRONG, and an all-time max of 20000 or more gives score 95 or
\* 85, however long ago that month was.
C26_ShortSeriesNeverSporadicStrong ==
    (Called /\ HasReturned(result)
        /\ Len(NormalizedGas) >= 1 /\ Len(NormalizedGas) <= 24) =>
        /\ result.metrics.recent_months_analyzed = Len(NormalizedGas)
        /\ result.metrics.recent_max_production = MaxSeq(NormalizedGas)
        /\ result.metrics.recent_max_production
             = result.metrics.max_production_ever
        /\ result.category # "SPORADIC_STRONG"
        /\ MaxSeq(NormalizedGas) >= 20000
               => result.reactivation_score \in {95, 85}

\* Nine rows spread over more than 24 calendar months, the first and only
\* one of 20000 or more being the oldest: SURGE_POTENTIAL.
C26_Witness ==
    /\ pc = "called"
    /\ HasReturned(result)
    /\ Len(NormalizedGas) = 9
    /\ NormalizedGas[1] >= 20000
    /\ \A k \in 2..9 : NormalizedGas[k] < 4000
    /\ Prepared.rows[9].production_date - Prepared.rows[1].production_date
          > 2 * 366
    /\ result.category = "SURGE_POTENTIAL"
    /\ result.reactivation_score = 85

----------------------------------------------------------------------------
(* src/src/api/client.py: WellDatabaseClient._make_request                  *)

RETRY_ATTEMPTS == 3
RETRY_BACKOFF_FACTOR == 2

MaxRetryArg == 3         \* max_retries is tried from 0 up to this

\* b ** e for e >= 0
RECURSIVE Pow(_, _)
Pow(b, e) == IF e = 0 THEN 1 ELSE b * Pow(b, e - 1)

Returned(status) == [returned |-> status]
RaisedError(class) == [raised |-> class]

\* RetryAllowed without the test of the last attempt.
RetryAllowed_Always(a, n) == a < n

\* `attempt < max_retries - 1`
RetryAllowed(a, n) == a < n - 1

InitRequest ==
    /\ pc = "request"
    /\ CoreIdle
    /\ method \in {"GET", "POST", "post", "PUT"}
    /\ max_retries \in (0..MaxRetryArg) \cup {RETRY_ATTEMPTS}
    /\ attempt = 0
    /\ responses = <<>>
    /\ sleeps = <<>>
    /\ outcome = NoResult
    /\ ResolveIdle
    /\ OccIdle
    /\ ManualIdle

\* The call is over: it returned or raised.
RequestEnds(o) ==
    /\ pc' = "request_done"
    /\ outcome' = o
    /\ UNCHANGED <<attempt, sleeps>>

\* wait_time = RETRY_BACKOFF_FACTOR ** attempt; time.sleep(wait_time); continue
RequestRetries ==
    /\ sleeps' = Append(sleeps, Pow(RETRY_BACKOFF_FACTOR, attempt))
    /\ attempt' = attempt + 1
    /\ UNCHANGED <<pc, outcome>>

\* One pass through the body of `for attempt in range(max_retries)`.  The
\* attempt comes to a response with a status code ("503" stands for every
\* status the code does not name), to httpx.TimeoutException, to
\* httpx.ConnectError, or to an httpx error of another class.
RequestAttempt ==
    /\ pc = "request"
    /\ attempt < max_retries
    /\ IF (LET Upper(m) == IF m = "post" THEN "POST"
                           ELSE IF m = "get" THEN "GET" ELSE m
           IN  Upper(method)) \notin {"POST", "GET"}  \* method.upper()
       THEN /\ RequestEnds(RaisedError("WellDatabaseError"))
            /\ UNCHANGED responses
       ELSE \E reply \in {"200", "401", "403", "404", "429", "500", "503",
                            "timeout", "connect_error", "read_error"} :
            /\ responses' = Append(responses, reply)
            /\ CASE reply = "200" -> RequestEnds(Returned("200"))
                 [] reply \in {"401", "403", "404", "500", "503"} ->
                        RequestEnds(RaisedError("WellDatabaseError"))
                 [] reply = "429" ->
                        IF RetryAllowed(attempt, max_retries)
                        THEN RequestRetries
                        ELSE RequestEnds(RaisedError("APIRateLimitError"))
                 [] reply = "timeout" ->
                        IF RetryAllowed(attempt, max_retries)
                        THEN RequestRetries
                        ELSE RequestEnds(RaisedError("APITimeoutError"))
                 [] reply = "connect_error" ->
                        RequestEnds(RaisedError("WellDatabaseError"))
                 [] OTHER -> RequestEnds(RaisedError("httpx.ReadError"))
    /\ UNCHANGED <<thresholds, categories, production_records, well_info,
                   sort_ties, now, result, result2, score_in, category_in,
                   recommendations, wells_production_data, results, batch_out,
                   report, production_df, asof, feats, ranked, method,
                   max_retries, api10_list, cache_path, batch_no, searched,
                   records, df_out, force_refresh, cache_file, total_count,
                   offset, all_wells, requests, occ_out, production_data,
                   manual_result>>

\* `return response` after the loop: the name is bound to the last response,
\* and to nothing when the loop body never ran.
RequestLoopEnd ==
    /\ pc = "request"
    /\ attempt >= max_retries
    /\ pc' = "request_done"
    /\ outcome' = IF responses = <<>> THEN RaisedError("UnboundLocalError")
                  ELSE Returned(responses[Len(responses)])
    /\ UNCHANGED <<thresholds, categories, production_records, well_info,
                   sort_ties, now, result, result2, score_in, category_in,
                   recommendations, wells_production_data, results, batch_out,
                   report, production_df, asof, feats, ranked, method,
                   max_retries, attempt, responses, sleeps, api10_list,
                   cache_path, batch_no, searched, records, df_out,
                   force_refresh, cache_file, total_count, offset, all_wells,
                   requests, occ_out, production_data, manual_result>>

NextRequest == RequestAttempt \/ RequestLoopEnd

SpecRequest == InitRequest /\ [][NextRequest]_vars

----------------------------------------------------------------------------
(* Properties of _make_request, checked under SpecRequest. *)

RequestDone == pc = "request_done"

Retried == {"429", "timeout"}

LastReply == responses[Len(responses)]

\* C27: _make_request makes at most max_retries HTTP attempts; every attempt
\* but the last met a 429 or a timeout and was followed by a wait of
\* RETRY_BACKOFF_FACTOR ** attempt seconds (1, 2, 4, ...), and no other wait
\* is made; a 200 is returned at once; a 401, 403, 404, 500, other status or
\* connection error raises WellDatabaseError where it first occurs; a 429 or
\* a timeout ends the call only at the last allowed attempt, raising
\* APIRateLimitError or APITimeoutError; nothing but a 200 is ever returned.
C27_RetryPolicy ==
    /\ Len(responses) <= max_retries
    /\ \A i \in 1..(Len(responses) - 1) : responses[i] \in Retried
    /\ \A i \in DOMAIN sleeps : sleeps[i] = Pow(RETRY_BACKOFF_FACTOR, i - 1)
    /\ ~RequestDone => Len(sleeps) = Len(responses)
    /\ (RequestDone /\ responses # <<>>) =>
          /\ Len(sleeps) = Len(responses) - 1
          /\ LastReply = "200" => outcome = Returned("200")
          /\ LastReply \in {"401", "403", "404", "500", "503", "connect_error"}
                => outcome = RaisedError("WellDatabaseError")
          /\ LastReply = "429" =>
                /\ Len(responses) = max_retries
                /\ outcome = RaisedError("APIRateLimitError")
          /\ LastReply = "timeout" =>
                /\ Len(responses) = max_retries
                /\ outcome = RaisedError("APITimeoutError")
    /\ (RequestDone /\ "returned" \in DOMAIN outcome) =>
          outcome = Returned("200") /\ LastReply = "200"

\* A call allowed three attempts that met a timeout, a 429 and a 429 again.
C27_Witness ==
    /\ RequestDone
    /\ max_retries = RETRY_ATTEMPTS
    /\ responses = <<"timeout", "429", "429">>
    /\ sleeps = <<1, 2>>
    /\ outcome = RaisedError("APIRateLimitError")

----------------------------------------------------------------------------
(* src/src/pipelines/phase0_desktop.py: resolve_wb_wells                    *)

MaxApis == 3             \* API10 lists of up to this many entries are tried

\* An API10 as a Python value: text or an integer.  `digits` tells whether
\* its spelling is all digits; n identifies the spelling.
ApiStr(c) == [kind |-> "str", digits |-> c.digits, n |-> c.n]
ApiInt(n) == [kind |-> "int", digits |-> TRUE, n |-> n]

\* A cell of the api10 column of a CSV file: the spelling alone.
ApiCell(n) == [digits |-> TRUE, n |-> n]        \* e.g. 3503921577
TextCell == [digits |-> FALSE, n |-> 0]         \* e.g. 35-039-21577

\* to_csv writes the spelling of a value.
CellOf(a) == [digits |-> a.digits, n |-> a.n]

\* cache_df, or NoneValue: `if cache_path and cache_path.exists()`, and
\* read_csv raising on a file it cannot parse.  pd.read_csv infers the type
\* of a column from all of its cells: a column whose cells are all digits is
\* read as int64, any other as text.
ReadCache(file) ==
    IF ~file.exists \/ ~file.readable THEN NoneValue
    ELSE LET all_digits == \A i \in DOMAIN file.rows : file.rows[i].api10.digits
         IN  [rows |->
                [i \in DOMAIN file.rows |->
                    [api10 |-> IF all_digits THEN ApiInt(file.rows[i].api10.n)
                                             ELSE ApiStr(file.rows[i].api10),
                     welldatabase_found |-> file.rows[i].welldatabase_found,
                     wellId |-> file.rows[i].wellId]]]

\* chunked(iterable, size)
Chunked(list, size) ==
    [b \in 1..((Len(list) + size - 1) \div size) |->
        SubSeq(list, (b - 1) * size + 1,
               IF b * size < Len(list) THEN b * size ELSE Len(list))]

SeqToSet(s) == {s[i] : i \in DOMAIN s}

\* combined.drop_duplicates(subset=['api10'], keep='last').to_csv(cache_path)
WriteCache(cache_df, out) ==
    LET old  == IF IsNone(cache_df) THEN <<>> ELSE cache_df.rows
        rows == old \o out
        kept == SelectSeq([i \in DOMAIN rows |-> [row |-> rows[i], i |-> i]],
                          LAMBDA x : \A j \in DOMAIN rows :
                                         j > x.i => rows[j].api10 # x.row.api10)
    IN  [exists |-> TRUE, readable |-> TRUE,
         rows |-> [i \in DOMAIN kept |->
                     [api10 |-> CellOf(kept[i].row.api10),
                      welldatabase_found |-> kept[i].row.welldatabase_found,
                      wellId |-> kept[i].row.wellId]]]

\* The argument batch_size: 2, so that a list of three entries is resolved in
\* two batches.
batch_size == 2

\* The API10 lists tried: distinct entries (the caller passes unique()), as
\* text (the declared List[str]) or as integers (a column read from CSV).
\* The cache files tried: none, one that cannot be parsed, and files written
\* by earlier runs.
InitResolve ==
    /\ pc = "resolve"
    /\ CoreIdle
    /\ RequestIdle
    /\ api10_list \in
           LET DistinctLists(S) ==
                   UNION {{l \in [1..k -> S] :
                              \A i, j \in 1..k : i # j => l[i] # l[j]} :
                          k \in 0..MaxApis}
           IN  DistinctLists({ApiStr(ApiCell(n)) : n \in 1..MaxApis}
                             \cup {ApiStr(TextCell)})
               \cup DistinctLists({ApiInt(n) : n \in 1..MaxApis})
    /\ cache_path \in
           LET CacheRow(c, found) ==
                   [api10 |-> c, welldatabase_found |-> found,
                    wellId |-> IF found THEN 100 + c.n ELSE 0]
               CacheFile(rows) ==
                   [exists |-> TRUE, readable |-> TRUE, rows |-> rows]
           IN  {NoFile, [exists |-> TRUE, readable |-> FALSE, rows |-> <<>>],
                CacheFile(<<>>),
                CacheFile(<<CacheRow(ApiCell(1), FALSE)>>),
                CacheFile(<<CacheRow(ApiCell(1), TRUE),
                            CacheRow(ApiCell(2), FALSE)>>),
                CacheFile(<<CacheRow(ApiCell(1), TRUE),
                            CacheRow(ApiCell(2), TRUE),
                            CacheRow(ApiCell(3), FALSE)>>),
                CacheFile(<<CacheRow(TextCell, FALSE),
                            CacheRow(ApiCell(1), TRUE)>>)}
    /\ batch_no = 0
    /\ searched = <<>>
    /\ records = <<>>
    /\ df_out = NoResult
    /\ OccIdle
    /\ ManualIdle

\* One pass through the body of `for batch in chunked(api10_list, batch_size)`.
\* The search either raises or returns wells for some of the API10s asked,
\* their api10 spelled as text.
\*   cached_rows: cache_df[cache_df['api10'].isin(batch)]
\*   uncached:    [a for a in batch
\*                 if a not in set(cached_rows['api10'].tolist())]
\*   SearchRecords: the records appended for the uncached API10s from the
\*                wells returned; by_api10 holds the wells whose api10 is
\*                text, by that text.
ResolveBatch ==
    /\ pc = "resolve"
    /\ batch_no < Len(Chunked(api10_list, batch_size))
    /\ LET batch    == Chunked(api10_list, batch_size)[batch_no + 1]
           cache_df == ReadCache(cache_path)
           cached_rows ==
               IF IsNone(cache_df) THEN <<>>
               ELSE SelectSeq(cache_df.rows,
                              LAMBDA r : r.api10 \in SeqToSet(batch))
           cached   == [i \in DOMAIN cached_rows |-> cached_rows[i]]
           hit      == {r.api10 : r \in SeqToSet(cached_rows)}
           uncached == SelectSeq(batch, LAMBDA a : a \notin hit)
           NotFoundRecord(a) ==
               [api10 |-> a, welldatabase_found |-> FALSE, wellId |-> 0]
           SearchRecords(wells) ==
               LET by_api10 == {w \in wells : w.api10.kind = "str"}
               IN  [i \in DOMAIN uncached |->
                       IF \E w \in by_api10 : w.api10 = uncached[i]
                       THEN [api10 |-> uncached[i],
                             welldatabase_found |-> TRUE,
                             wellId |-> (CHOOSE w \in by_api10 :
                                             w.api10 = uncached[i]).wellId]
                       ELSE NotFoundRecord(uncached[i])]
       IN  IF uncached = <<>>
           THEN /\ records' = records \o cached
                /\ UNCHANGED searched
           ELSE \/ /\ records' = records \o cached
                                 \o [i \in DOMAIN uncached |->
                                        NotFoundRecord(uncached[i])]
                   /\ searched' = Append(searched,
                                      [batch |-> batch_no + 1,
                                       Api10 |-> uncached, raised |-> TRUE,
                                       data |-> {}])
                \/ \E got \in SUBSET SeqToSet(uncached) :
                   LET wells == {[api10 |-> ApiStr(a), wellId |-> 100 + a.n] :
                                    a \in got}
                   IN  /\ records' = records \o cached
                                         \o SearchRecords(wells)
                       /\ searched' = Append(searched,
                                          [batch |-> batch_no + 1,
                                           Api10 |-> uncached, raised |-> FALSE,
                                           data |-> wells])
    /\ batch_no' = batch_no + 1
    /\ UNCHANGED <<pc, thresholds, categories, production_records, well_info,
                   sort_ties, now, result, result2, score_in, category_in,
                   recommendations, wells_production_data, results, batch_out,
                   report, production_df, asof, feats, ranked, method,
                   max_retries, attempt, responses, sleeps, outcome,
                   api10_list, cache_path, df_out, force_refresh, cache_file,
                   total_count, offset, all_wells, requests, occ_out,
                   production_data, manual_result>>

\* After the loop: the table is built, the cache is written, the table is
\* returned.
ResolveReturn ==
    /\ pc = "resolve"
    /\ batch_no >= Len(Chunked(api10_list, batch_size))
    /\ pc' = "resolve_done"
    /\ df_out' = records
    /\ cache_path' = WriteCache(ReadCache(cache_path), records)
    /\ UNCHANGED <<thresholds, categories, production_records, well_info,
                   sort_ties, now, result, result2, score_in, category_in,
                   recommendations, wells_production_data, results, batch_out,
                   report, production_df, asof, feats, ranked, method,
                   max_retries, attempt, responses, sleeps, outcome,
                   api10_list, batch_no, searched, records, force_refresh,
                   cache_file, total_count, offset, all_wells, requests,
                   occ_out, production_data, manual_result>>

NextResolve == ResolveBatch \/ ResolveReturn

SpecResolve == InitResolve /\ [][NextResolve]_vars

----------------------------------------------------------------------------
(* Properties of resolve_wb_wells, checked under SpecResolve. *)

\* The API10s of the batches the loop has been through.
ProcessedApis ==
    LET k == batch_no * batch_size
    IN  SeqToSet(SubSeq(api10_list, 1, IF k < Len(api10_list) THEN k
                                       ELSE Len(api10_list)))

\* The rows of the cache file for API10 a, while the call has not replaced
\* the file.
CacheFileRows(a) ==
    IF cache_path.exists /\ cache_path.readable
    THEN {r \in SeqToSet(cache_path.rows) : r.api10 = CellOf(a)}
    ELSE {}

RecordsOf(a) == {r \in SeqToSet(records) : CellOf(r.api10) = CellOf(a)}

SearchesOf(a) ==
    {s \in SeqToSet(searched) :
        \E b \in SeqToSet(s.Api10) : CellOf(b) = CellOf(a)}

SearchReturns(s, a) ==
    ~s.raised /\ \E w \in s.data : CellOf(w.api10) = CellOf(a)

C28_AnsweredFromCache(a) ==
    /\ SearchesOf(a) = {}
    /\ \A r \in RecordsOf(a) :
          \E c \in CacheFileRows(a) :
              r.welldatabase_found = c.welldatabase_found

C28_AnsweredBySearch(a) ==
    /\ SearchesOf(a) # {}
    /\ \A s \in SearchesOf(a) : \A r \in RecordsOf(a) :
          IF SearchReturns(s, a)
          THEN /\ r.welldatabase_found
               /\ \E w \in s.data : CellOf(w.api10) = CellOf(a)
                                    /\ r.wellId = w.wellId
          ELSE ~r.welldatabase_found

\* C28: every API10 of a batch the loop has been through has at least one
\* record; one that is in the cache file is answered from the file, with the
\* file's welldatabase_found, and is in no search sent to the service; any
\* other is in a search, and its record has welldatabase_found = True and the
\* well's identifiers when that search returned it, False when the search
\* did not return it or raised; the call ends only after every batch, so
\* the table returned has a record for every API10 of the list.
C28_ResolveRecords ==
    /\ pc = "resolve" =>
          \A a \in ProcessedApis :
              /\ RecordsOf(a) # {}
              /\ IF CacheFileRows(a) # {} THEN C28_AnsweredFromCache(a)
                                          ELSE C28_AnsweredBySearch(a)
    /\ pc = "resolve_done" =>
          /\ batch_no = Len(Chunked(api10_list, batch_size))
          /\ df_out = records
          /\ \A a \in SeqToSet(api10_list) : RecordsOf(a) # {}

----------------------------------------------------------------------------
(* src/src/data/occ_api_client.py: OCCAPIClient.get_all_orphan_wells        *)

max_record_count == 2000

MaxTotal == 5            \* the count request reports 0..MaxTotal wells
MaxBatch == 3            \* a batch request returns 0..MaxBatch wells

\* The day's cache file holding these wells.
JsonFile(wells) == [exists |-> TRUE, wells |-> wells]

\* pd.DataFrame(wells)
Table(wells) == [table |-> wells]

\* The wells the registry returns from position o on: well o + 1, o + 2, ...
WellsFrom(o, n) == [i \in 1..n |-> o + i]

\* What a request can come to: a failure (after the retries of _make_request)
\* or a response carrying a count, or that many features.
Failed == [failed |-> TRUE, n |-> 0]
Replied(n) == [failed |-> FALSE, n |-> n]

\* LoopBreaks for a loop that no batch stops.
LoopBreaks_Never(batch_wells) == FALSE

\* `if not batch_wells: break`
LoopBreaks(batch_wells) == batch_wells = <<>>

InitOcc ==
    /\ pc = "occ_start"
    /\ CoreIdle
    /\ RequestIdle
    /\ ResolveIdle
    /\ force_refresh \in BOOLEAN
    /\ cache_file \in {NoFile, JsonFile(<<>>), JsonFile(WellsFrom(0, 2)),
                       JsonFile(WellsFrom(0, 4))}
    /\ total_count = 0
    /\ offset = 0
    /\ all_wells = <<>>
    /\ requests = <<>>
    /\ occ_out = NoResult
    /\ ManualIdle

\* `if cache_file.exists() and not force_refresh`: the cached records are
\* returned.
OccCacheHit ==
    /\ pc = "occ_start"
    /\ cache_file.exists /\ ~force_refresh
    /\ occ_out' = Table(cache_file.wells)
    /\ pc' = "occ_done"
    /\ UNCHANGED <<thresholds, categories, production_records, well_info,
                   sort_ties, now, result, result2, score_in, category_in,
                   recommendations, wells_production_data, results, batch_out,
                   report, production_df, asof, feats, ranked, method,
                   max_retries, attempt, responses, sleeps, outcome,
                   api10_list, cache_path, batch_no, searched, records,
                   df_out, force_refresh, cache_file, total_count, offset,
                   all_wells, requests, production_data, manual_result>>

\* The count request; a count of 0 ends the call with an empty table.
\* get_orphan_wells_count returns data.get('count', 0), and 0 when the
\* request fails.
OccCount ==
    /\ pc = "occ_start"
    /\ ~(cache_file.exists /\ ~force_refresh)
    /\ \E reply \in {Replied(n) : n \in 0..MaxTotal} \cup {Failed} :
          LET count == IF reply.failed THEN 0 ELSE reply.n
          IN
          /\ requests' = Append(requests, [returnCountOnly |-> TRUE])
          /\ total_count' = count
          /\ IF count = 0
             THEN /\ occ_out' = Table(<<>>)
                  /\ pc' = "occ_done"
             ELSE /\ pc' = "occ_loop"
                  /\ UNCHANGED occ_out
    /\ all_wells' = <<>>
    /\ offset' = 0
    /\ UNCHANGED <<thresholds, categories, production_records, well_info,
                   sort_ties, now, result, result2, score_in, category_in,
                   recommendations, wells_production_data, results, batch_out,
                   report, production_df, asof, feats, ranked, method,
                   max_retries, attempt, responses, sleeps, outcome,
                   api10_list, cache_path, batch_no, searched, records,
                   df_out, force_refresh, cache_file, production_data,
                   manual_result>>

\* df = pd.DataFrame(all_wells); json.dump(all_wells, f); return df
OccWriteAndReturn(wells) ==
    /\ cache_file' = JsonFile(wells)
    /\ occ_out' = Table(wells)
    /\ pc' = "occ_done"

\* One pass through the body of `while offset < total_count`; an empty batch
\* leaves the loop, and the rest of the call follows.  get_orphan_wells_batch
\* returns the wells of the features returned, and [] when the request fails.
OccBatch ==
    /\ pc = "occ_loop"
    /\ offset < total_count
    /\ Len(requests) < MaxTotal + 2
    /\ \E reply \in {Replied(n) : n \in 0..MaxBatch} \cup {Failed} :
          LET batch_wells == IF reply.failed THEN <<>>
                             ELSE WellsFrom(offset, reply.n)
          IN  /\ requests' = Append(requests,
                                    [resultOffset |-> offset,
                                     resultRecordCount |-> max_record_count])
              /\ IF LoopBreaks(batch_wells)
                 THEN /\ OccWriteAndReturn(all_wells)
                      /\ UNCHANGED <<all_wells, offset>>
                 ELSE /\ all_wells' = all_wells \o batch_wells
                      /\ offset' = offset + Len(batch_wells)
                      /\ UNCHANGED <<pc, cache_file, occ_out>>
    /\ UNCHANGED <<thresholds, categories, production_records, well_info,
                   sort_ties, now, result, result2, score_in, category_in,
                   recommendations, wells_production_data, results, batch_out,
                   report, production_df, asof, feats, ranked, method,
                   max_retries, attempt, responses, sleeps, outcome,
                   api10_list, cache_path, batch_no, searched, records,
                   df_out, force_refresh, total_count, production_data,
                   manual_result>>

\* The loop condition is false: the rest of the call follows.
OccLoopEnd ==
    /\ pc = "occ_loop"
    /\ offset >= total_count
    /\ OccWriteAndReturn(all_wells)
    /\ UNCHANGED <<thresholds, categories, production_records, well_info,
                   sort_ties, now, result, result2, score_in, category_in,
                   recommendations, wells_production_data, results, batch_out,
                   report, production_df, asof, feats, ranked, method,
                   max_retries, attempt, responses, sleeps, outcome,
                   api10_list, cache_path, batch_no, searched, records,
                   df_out, force_refresh, total_count, offset, all_wells,
                   requests, production_data, manual_result>>

NextOcc == OccCacheHit \/ OccCount \/ OccBatch \/ OccLoopEnd

\* The call runs on one thread: a step that can be taken is taken.
SpecOcc == InitOcc /\ [][NextOcc]_vars /\ WF_vars(NextOcc)

----------------------------------------------------------------------------
(* Properties of get_all_orphan_wells, checked under SpecOcc. *)

OccDone == pc = "occ_done"

\* The call went through the loop: it was not answered from the cache and
\* the count was not 0.
OccDownloaded == OccDone /\ total_count > 0

C29_LoopStep ==
    (pc = "occ_loop" /\ pc' = "occ_loop") =>
        /\ offset' > offset
        /\ offset' - offset = Len(all_wells') - Len(all_wells)
        /\ offset < total_count

C29_LoopExit ==
    (pc = "occ_loop" /\ pc' = "occ_done") =>
        /\ offset' >= total_count \/ Len(requests') = Len(requests) + 1
        /\ all_wells' = all_wells /\ offset' = offset
        /\ cache_file' = JsonFile(all_wells)
        /\ occ_out' = Table(all_wells)

C29_NoLoop ==
    (pc = "occ_start" /\ pc' = "occ_done") =>
        /\ cache_file' = cache_file
        /\ IF cache_file.exists /\ ~force_refresh
           THEN requests' = <<>> /\ occ_out' = Table(cache_file.wells)
           ELSE total_count' = 0 /\ occ_out' = Table(<<>>)

\* C29: get_all_orphan_wells terminates; a pass of the loop that stays in
\* the loop is made with offset < total_count and raises offset by the size
\* of its batch, which is at least 1; the loop is left when offset >=
\* total_count or on an empty or failed batch, and then the wells downloaded
\* are written to the day's cache file and returned; when the cache file
\* exists and force_refresh is false no request is made and the cached
\* records are returned; when the count is 0 an empty table is returned and
\* no cache file is written.
C29_Terminates ==
    /\ <>OccDone
    /\ [][C29_LoopStep /\ C29_LoopExit /\ C29_NoLoop]_vars
    /\ [](pc = "occ_loop" => offset = Len(all_wells))

\* A download of five wells in batches of 2 and 3.
C29_Witness ==
    /\ OccDownloaded
    /\ total_count = 5
    /\ Len(requests) = 3
    /\ offset = 5
    /\ cache_file = JsonFile(WellsFrom(0, 5))

----------------------------------------------------------------------------
(* src/tools/manual_reactivation_analyzer.py:                               *)
(* ManualReactivationAnalyzer.analyze_well_from_data, on a list of records. *)

\* .sort_values('date'): rows of equal date are left as this build's
\* quicksort leaves them; rows without a date come last (their key is a day
\* number after every date), in frame order.
ManualSort(rows, ties) ==
    LET n    == Len(rows)
        key  == [i \in 1..n |->
                    IF rows[i].date.nat THEN 200000 * (n + 1) + i
                    ELSE rows[i].date.days * (n + 1)
                         + (IF ties = "stable" THEN i ELSE n + 1 - i)]
        keys == {key[i] : i \in 1..n}
        rank == [i \in 1..n |-> 1 + Cardinality({k \in keys : k < key[i]})]
    IN  [k \in 1..n |-> rows[CHOOSE i \in 1..n : rank[i] = k]]

ManualResult(category, score, metrics) ==
    [category |-> category, reactivation_score |-> score, metrics |-> metrics]

\* The decision tree, on the sorted positive rows.
ManualCategorize(rows) ==
    LET ManualThresholds ==
            [high_consistent |-> 4000, surge_peak |-> 20000,
             viable_minimum |-> 1000, analysis_months |-> 24]
        g          == [i \in 1..Len(rows) |-> rows[i].gas_mcf]
        recent     == TailSeq(g, ManualThresholds.analysis_months)
        max_production == MaxSeq(g)
        recent_max == MaxSeq(recent)
        recent_avg == MeanSeq(recent)
        consistent_4k_months == CountGE(recent, ManualThresholds.high_consistent)
        surge_months  == CountGE(recent, ManualThresholds.surge_peak)
        viable_months == CountGE(recent, ManualThresholds.viable_minimum)
        category_analysis ==
            [total_months |-> Len(g),
             recent_months_analyzed |-> Len(recent),
             max_production_ever |-> max_production,
             recent_max_production |-> recent_max,
             recent_avg_production |-> recent_avg,
             months_above_4k |-> consistent_4k_months,
             months_above_20k |-> surge_months,
             months_above_1k |-> viable_months]
    IN  IF consistent_4k_months >= 6
           /\ FracGE(recent_avg, ManualThresholds.high_consistent)
        THEN ManualResult("HIGH_POTENTIAL", 95, category_analysis)
        ELSE IF surge_months >= 1 /\ recent_max >= ManualThresholds.surge_peak
        THEN ManualResult("SURGE_POTENTIAL", 85, category_analysis)
        ELSE IF viable_months >= 3
                /\ FracGE(recent_avg, ManualThresholds.viable_minimum)
        THEN ManualResult("DECLINING_VIABLE", 70, category_analysis)
        ELSE IF max_production >= ManualThresholds.surge_peak
        THEN ManualResult("SPORADIC_STRONG", 60, category_analysis)
        ELSE IF max_production >= ManualThresholds.viable_minimum
        THEN ManualResult("SPORADIC_MODERATE", 40, category_analysis)
        ELSE ManualResult("LOW_POTENTIAL", 20, category_analysis)

\* What analyze_well_from_data(well_info, data) returns for a list of
\* records: a result, None, or that it raised.
\*   StrictDateRaises: pd.to_datetime(df['date']) raises on text that names
\*       no calendar day; a missing cell becomes NaT.
\*   ManualFrame: df[df['gas_mcf'] > 0] after the conversions: index label,
\*       gas_mcf and date of each row kept.
AnalyzeWellFromData(data, ties) ==
    LET StrictDateRaises ==
            \E i \in DOMAIN data :
                /\ "y" \in DOMAIN Cell(data[i], "date")
                /\ ToDatetime(Cell(data[i], "date")).nat
        ManualFrame ==
            SelectSeq([i \in 1..Len(data) |->
                          [idx |-> i,
                           gas_mcf |-> FillNa0(ToNumeric(Cell(data[i],
                                                              "gas_mcf"))),
                           date |-> ToDatetime(Cell(data[i], "date"))]],
                      LAMBDA r : r.gas_mcf > 0)
    IN
    IF ~({"gas_mcf", "date"} \subseteq Columns(data)) THEN NoneValue
    ELSE IF StrictDateRaises THEN Raised
    ELSE LET df == ManualSort(ManualFrame, ties)
         IN  IF Len(df) = 0
             THEN ManualResult("NO_PRODUCTION", 0, EmptyDict)
             \* first_production.strftime('%Y-%m') on NaT
             ELSE IF \A i \in DOMAIN df : df[i].date.nat THEN Raised
             ELSE ManualCategorize(df)

----------------------------------------------------------------------------
(* The two analyzers on the same months. *)

\* A month as (date, gas): both fields present; the volume positive, zero,
\* negative, text or missing; the date a day, no day, or missing.  The
\* manual analyzer takes the months under the names date and gas_mcf.
InitManual ==
    /\ pc = "start"
    /\ thresholds = InitThresholds(NoneValue)
    /\ categories = REACTIVATION_CATEGORIES
    /\ \/ /\ production_records \in RunSeries \cup DecliningSeries \cup TrendSeries
          /\ sort_ties = "stable"
       \/ /\ production_records \in
                 LET MonthShapes ==
                         { [wellGas |-> Num(1500),
                            reportDate |-> Date(2020, 3, 1)],
                           [wellGas |-> Num(25000),
                            reportDate |-> Date(2020, 1, 1)],
                           [wellGas |-> NumStr(4500),
                            reportDate |-> Date(2020, 3, 1)],
                           [wellGas |-> Num(0),
                            reportDate |-> Date(2020, 2, 1)],
                           [wellGas |-> Num(0 - 50),
                            reportDate |-> Date(2020, 2, 1)],
                           [wellGas |-> Null,
                            reportDate |-> Date(2020, 4, 1)],
                           [wellGas |-> Num(1500),
                            reportDate |-> Date(2020, 13, 1)],
                           [wellGas |-> Num(25000),
                            reportDate |-> Null] }
                 IN  UNION {[1..k -> MonthShapes] : k \in 0..MaxRecs}
          /\ sort_ties \in {"stable", "reversed"}
    /\ well_info = SampleWellInfo
    /\ now = 0
    /\ result = NoResult
    /\ result2 = NoResult
    /\ score_in = 0
    /\ category_in = "NO_DATA"
    /\ recommendations = NoResult
    /\ wells_production_data = <<>>
    /\ results = <<>>
    /\ batch_out = NoResult
    /\ report = NoResult
    /\ production_df = <<>>
    /\ asof = 0
    /\ feats = <<>>
    /\ ranked = <<>>
    /\ RequestIdle
    /\ ResolveIdle
    /\ OccIdle
    /\ production_data =
           [i \in DOMAIN production_records |->
               [date |-> production_records[i].reportDate,
                gas_mcf |-> production_records[i].wellGas]]
    /\ manual_result = NoResult

ManualAnalyzeWell ==
    /\ pc = "called"
    /\ manual_result' = AnalyzeWellFromData(production_data, sort_ties)
    /\ pc' = "manual_called"
    /\ UNCHANGED <<thresholds, categories, production_records, well_info,
                   sort_ties, now, result, result2, score_in, category_in,
                   recommendations, wells_production_data, results, batch_out,
                   report, production_df, asof, feats, ranked, method,
                   max_retries, attempt, responses, sleeps, outcome,
                   api10_list, cache_path, batch_no, searched, records,
                   df_out, force_refresh, cache_file, total_count, offset,
                   all_wells, requests, occ_out, production_data>>

NextManual == AnalyzeWell \/ ManualAnalyzeWell

SpecManual == InitManual /\ [][NextManual]_vars

----------------------------------------------------------------------------
(* Properties of the two analyzers, checked under SpecManual. *)

BothCalled == pc = "manual_called"

\* Every month has a date that names a calendar day.
AllDated ==
    \A i \in DOMAIN production_records :
        ~ToDatetime(production_records[i].reportDate).nat

NoPositiveMonth ==
    \A i \in DOMAIN production_records :
        FillNa0(ToNumeric(production_records[i].wellGas)) <= 0

SameDecision ==
    /\ HasReturned(result)
    /\ HasReturned(manual_result)
    /\ manual_result.category = result.category
    /\ manual_result.reactivation_score = result.reactivation_score

\* C30: for every sequence of dated months, given as date/gas_mcf to
\* analyze_well_from_data and as reportDate/wellGas to analyze_well, both
\* return a result, with the same category and the same reactivation_score;
\* when no month is positive both return NO_PRODUCTION with score 0.
C30_SameDecision ==
    (BothCalled /\ AllDated) =>
        /\ SameDecision
        /\ NoPositiveMonth =>
              /\ result.category = "NO_PRODUCTION"
              /\ result.reactivation_score = 0

====
